---- MODULE Spec2Model ----
(***************************************************************************)
(* R3ACT: critical-event detection, baseline estimation and the CRT        *)
(* metric, modelled from src/src/event_detector.py,                        *)
(* src/src/baseline_calculator.py and src/src/metrics_calculator.py.       *)
(*                                                                         *)
(* Python floats are modelled exactly where the arithmetic is rational     *)
(* (weights: reduced fractions <<n, d>>) and in fixed point elsewhere      *)
(* (times: integer multiples of 1/TimeScale second).                       *)
(***************************************************************************)
EXTENDS Integers, Sequences, FiniteSets, TLC

VARIABLES
    weights_arg,      \* the event_weights argument of CriticalEventDetector(...)
    event_weights,    \* CriticalEventDetector.event_weights
    constructed,      \* CriticalEventDetector.__init__ has returned
    time_str,         \* the argument of a _parse_time call
    parse_result,     \* [returned, value]: whether that call returned, and what
    events_df,        \* the event table handed to detect_critical_events
    df_critical,      \* the table detect_critical_events returned
    goals,            \* what _detect_goals returned inside that call
    detected,         \* detect_critical_events has returned
    tracking_data_dict,  \* {match_id: [frames]}, the tracking corpus
    player_baselines,    \* BaselineCalculator.player_baselines
    team_baselines,      \* BaselineCalculator.team_baselines
    baseline_pc,         \* "load", "pass1" (calculate_baselines returned) or
                         \* "done" (calculate_velocity_baselines returned)
    runs,                \* completed runs of both passes
    first_run,           \* player_baselines as the first run left them
    tracking_frames,     \* one match's tracking, as handed to calculate_crt
    crt_args,            \* the arguments of a calculate_crt call
    crt_result,          \* [returned, is_none, value] of that call
    crt_locals,          \* player_metrics and ewma_values when it returned
    phases_df,           \* one match's phases_of_play table
    tsi_args,            \* the arguments of a calculate_tsi call
    tsi_result,          \* [returned, raised, the three sub-scores, tsi]
    giri_event,          \* the critical event _process_match is handling, with
                         \* the system's time_window_seconds
    giri_result,         \* event_result['GIRI'] once that event is handled
    metrics_calculator,  \* R3ACTSystem.metrics_calculator is not None
    orch,                \* process_all_matches: its position (pc), its argument,
                         \* the matches in tracking_data_dict (loaded) and those
                         \* with frames, the baseline passes that have returned
                         \* in this call (passes) and in any call (built), the
                         \* matches processed, the calls made
    evaluations,         \* the metric evaluations started so far
    critical_events_df,  \* the critical events of the match _process_match
                         \* is handling
    results,             \* the results list of that _process_match call
    match_pc,            \* that call: "idle", "loop" or "returned"
    raising,             \* the matches whose data makes _process_match raise
    results_without      \* all_results of the same run on the corpus without
                         \* the matches of raising

vars == <<weights_arg, event_weights, constructed, time_str, parse_result,
          events_df, df_critical, goals, detected,
          tracking_data_dict, player_baselines, team_baselines, baseline_pc,
          runs, first_run, tracking_frames, crt_args, crt_result,
          crt_locals, phases_df, tsi_args, tsi_result,
          giri_event, giri_result, metrics_calculator, orch, evaluations,
          critical_events_df, results, match_pc, raising, results_without>>

(***************************************************************************)
(* Bounds of the model.                                                    *)
(***************************************************************************)
MaxWeight == 2        \* custom raw weights range over -1 .. MaxWeight
MaxStrLen == 4        \* time strings have at most this many characters
MaxRows == 2          \* rows of an event table
MaxCorpusFrames == 2  \* tracking frames of a corpus, over all its matches
MaxRuns == 2          \* runs of the Baseline Estimator over one corpus
MaxFrames == 11       \* frames of the tracking handed to calculate_crt
MaxChanges == 1       \* places where that tracking's frame shape changes
MaxPhases == 2        \* rows of a phases_of_play table

(***************************************************************************)
(* Exact rationals <<n, d>>, d > 0, in lowest terms.                       *)
(***************************************************************************)
Abs(i) == IF i < 0 THEN 0 - i ELSE i

RECURSIVE Gcd(_, _)
Gcd(a, b) == IF b = 0 THEN a ELSE Gcd(b, a % b)

Rat(n, d) ==
    LET s == IF d < 0 THEN 0 - 1 ELSE 1
        g == Gcd(Abs(n), Abs(d))
    IN  <<(s * n) \div g, (s * d) \div g>>

RatAdd(p, q) == Rat(p[1] * q[2] + q[1] * p[2], p[2] * q[2])

RatDiv(p, q) == Rat(p[1] * q[2], p[2] * q[1])

RatZero == <<0, 1>>

RatOne == <<1, 1>>

RatPos(p) == p[1] > 0

\* sum(d.values()) of a dictionary d of rationals
RECURSIVE SumValues(_, _)
SumValues(d, keys) ==
    IF keys = {} THEN RatZero
    ELSE LET k == CHOOSE k \in keys : TRUE
         IN  RatAdd(d[k], SumValues(d, keys \ {k}))

(***************************************************************************)
(* CriticalEventDetector.__init__ and _normalize_weights                   *)
(***************************************************************************)
default_weights ==
    [k \in {"possession_loss_defensive_third", "possession_loss_middle_third",
            "possession_loss_attacking_third", "possession_loss_penalty_area",
            "failed_pass_dangerous", "failed_pass_lead_to_shot",
            "failed_pass_offside", "goal_conceded", "goal_scored",
            "defensive_error_lead_to_shot", "interception_conceded_dangerous",
            "interception_conceded_defensive_third"} |->
        CASE k = "possession_loss_defensive_third" -> Rat(10, 10)
          [] k = "possession_loss_middle_third" -> Rat(7, 10)
          [] k = "possession_loss_attacking_third" -> Rat(5, 10)
          [] k = "possession_loss_penalty_area" -> Rat(15, 10)
          [] k = "failed_pass_dangerous" -> Rat(12, 10)
          [] k = "failed_pass_lead_to_shot" -> Rat(15, 10)
          [] k = "failed_pass_offside" -> Rat(8, 10)
          [] k = "goal_conceded" -> Rat(20, 10)
          [] k = "goal_scored" -> Rat(20, 10)
          [] k = "defensive_error_lead_to_shot" -> Rat(13, 10)
          [] k = "interception_conceded_dangerous" -> Rat(8, 10)
          [] k = "interception_conceded_defensive_third" -> Rat(10, 10)]

\* The keys a caller's dictionary may use: two of the taxonomy, one of its own.
CustomKeys == {"goal_scored", "failed_pass_offside", "custom_event"}

\* None, or a dictionary from some of the keys to raw weights.
NoWeights == [kind |-> "None", d |-> <<>>]

WeightArgs ==
    {NoWeights} \cup
    { [kind |-> "dict", d |-> f] :
        f \in UNION { [S -> {Rat(v, 1) : v \in (0 - 1)..MaxWeight}] :
                        S \in SUBSET CustomKeys } }

\* A mutant of _normalize_weights: divides by the largest weight instead of the sum.
NormalizeByMax(w) ==
    LET top == CHOOSE v \in {w[k] : k \in DOMAIN w} :
                   \A k \in DOMAIN w : RatPos(RatAdd(v, Rat(0 - w[k][1], w[k][2])))
                                       \/ v = w[k]
    IN  IF RatPos(top) THEN [k \in DOMAIN w |-> RatDiv(w[k], top)] ELSE w

_normalize_weights(w) ==
    LET total == SumValues(w, DOMAIN w)
    IN  IF RatPos(total) THEN [k \in DOMAIN w |-> RatDiv(w[k], total)] ELSE w

\* "event_weights if event_weights else self.default_weights": None and the
\* empty dictionary are both falsy.
CriticalEventDetector(arg) ==
    _normalize_weights(
        IF arg.kind = "dict" /\ DOMAIN arg.d # {} THEN arg.d ELSE default_weights)

(***************************************************************************)
(* CriticalEventDetector._parse_time                                       *)
(*                                                                         *)
(* A time_start cell is a string (a sequence of characters), or one of the *)
(* non-strings a table cell can hold: None, a float NaN (an empty CSV      *)
(* cell), a number.  Times are integers in units of 1/TimeScale second.    *)
(***************************************************************************)
Chars == {"0", "1", ":", ".", "x"}

Digits == {"0", "1"}

RECURSIVE Pow10(_)
Pow10(k) == IF k = 0 THEN 1 ELSE 10 * Pow10(k - 1)

TimeScale == Pow10(MaxStrLen)

DigitVal(c) == IF c = "1" THEN 1 ELSE 0

RECURSIVE Count(_, _)
Count(s, c) ==
    IF s = <<>> THEN 0
    ELSE (IF Head(s) = c THEN 1 ELSE 0) + Count(Tail(s), c)

\* the index of the first c in s, or 0
RECURSIVE IndexOf(_, _)
IndexOf(s, c) ==
    IF s = <<>> THEN 0
    ELSE IF Head(s) = c THEN 1
    ELSE LET r == IndexOf(Tail(s), c) IN IF r = 0 THEN 0 ELSE r + 1

\* str.split(c): the pieces of s between the occurrences of c
RECURSIVE Split(_, _)
Split(s, c) ==
    LET i == IndexOf(s, c)
    IN  IF i = 0 THEN <<s>>
        ELSE <<SubSeq(s, 1, i - 1)>> \o Split(SubSeq(s, i + 1, Len(s)), c)

\* the decimal value of a string of digits
RECURSIVE DecVal(_)
DecVal(s) ==
    IF s = <<>> THEN 0 ELSE 10 * DecVal(SubSeq(s, 1, Len(s) - 1)) + DigitVal(s[Len(s)])

AllDigits(s) == \A i \in 1..Len(s) : s[i] \in Digits

\* int(s) succeeds: one or more digits
IntOk(s) == s # <<>> /\ AllDigits(s)

\* float(s) succeeds: digits with at most one point, and at least one digit
FloatOk(s) ==
    /\ \A i \in 1..Len(s) : s[i] \in Digits \cup {"."}
    /\ Count(s, ".") <= 1
    /\ \E i \in 1..Len(s) : s[i] \in Digits

\* float(s), in units of 1/TimeScale
FloatVal(s) ==
    LET i == IndexOf(s, ".")
        whole == IF i = 0 THEN s ELSE SubSeq(s, 1, i - 1)
        frac == IF i = 0 THEN <<>> ELSE SubSeq(s, i + 1, Len(s))
    IN  DecVal(whole) * TimeScale + (DecVal(frac) * TimeScale) \div Pow10(Len(frac))

StrCell(s) == [kind |-> "str", s |-> s]

NonStrCells == { [kind |-> k, s |-> <<>>] : k \in {"None", "NaN", "number"} }


\* "':' in time_str" raises TypeError on a non-string, int() and float() raise
\* ValueError on text they cannot read; the bare except turns each into 0.0.
\* Only parts[0] and parts[1] of the split are read.
_parse_time(t) ==
    IF t.kind # "str" THEN 0
    ELSE IF Count(t.s, ":") > 0
    THEN LET parts == Split(t.s, ":")
         IN  IF IntOk(parts[1]) /\ FloatOk(parts[2])
             THEN DecVal(parts[1]) * 60 * TimeScale + FloatVal(parts[2])
             ELSE 0
    ELSE IF FloatOk(t.s) THEN FloatVal(t.s) ELSE 0

(***************************************************************************)
(* The event table (dynamic_events).  A row carries its DataFrame index    *)
(* (idx) and the columns the detectors read.  Columns that are only copied *)
(* into the output (player, team, coordinates) are left out.               *)
(***************************************************************************)
NeutralRow ==
    [idx |-> 0, event_id |-> 0, time_start |-> StrCell(<<"0">>),
     end_type |-> "other", associated_player_possession_end_type |-> "other",
     pass_outcome |-> "successful", dangerous |-> FALSE, lead_to_shot |-> FALSE,
     lead_to_goal |-> FALSE, game_interruption_after |-> "none",
     start_type |-> "other", third_start |-> "attacking_third",
     penalty_area_start |-> FALSE]

\* One row shape for each way through the five detectors, and the shapes
\* that several detectors or both goal paths match.
RowShapes ==
    { NeutralRow,
      [NeutralRow EXCEPT !.end_type = "possession_loss",
                         !.third_start = "defensive_third",
                         !.penalty_area_start = TRUE],
      [NeutralRow EXCEPT !.end_type = "possession_loss",
                         !.third_start = "defensive_third"],
      [NeutralRow EXCEPT !.associated_player_possession_end_type = "possession_loss",
                         !.third_start = "middle_third"],
      [NeutralRow EXCEPT !.end_type = "possession_loss",
                         !.pass_outcome = "unsuccessful"],
      [NeutralRow EXCEPT !.pass_outcome = "offside", !.dangerous = TRUE],
      [NeutralRow EXCEPT !.pass_outcome = "unsuccessful", !.dangerous = TRUE,
                         !.lead_to_shot = TRUE],
      [NeutralRow EXCEPT !.pass_outcome = "unsuccessful", !.lead_to_shot = TRUE],
      [NeutralRow EXCEPT !.game_interruption_after = "goal_for"],
      [NeutralRow EXCEPT !.game_interruption_after = "goal_against"],
      [NeutralRow EXCEPT !.game_interruption_after = "goal_for",
                         !.lead_to_goal = TRUE],
      [NeutralRow EXCEPT !.game_interruption_after = "goal_against",
                         !.lead_to_goal = TRUE],
      [NeutralRow EXCEPT !.lead_to_goal = TRUE],
      [NeutralRow EXCEPT !.end_type = "clearance", !.lead_to_shot = TRUE],
      [NeutralRow EXCEPT !.end_type = "clearance"],
      [NeutralRow EXCEPT !.start_type = "pass_interception", !.dangerous = TRUE],
      [NeutralRow EXCEPT !.start_type = "pass_interception",
                         !.third_start = "defensive_third"],
      [NeutralRow EXCEPT !.start_type = "pass_interception",
                         !.third_start = "middle_third"] }

\* time_start cells of a table: "1:0" (60 s), "1" (1 s), and a malformed one.
TimeStarts == { StrCell(<<"1", ":", "0">>), StrCell(<<"1">>), StrCell(<<"x">>) }

\* the dictionary a detector appends for a row
Event(row, event_type) ==
    [event_id |-> row.event_id,
     timestamp |-> _parse_time(row.time_start),
     event_type |-> event_type,
     row |-> row.idx]

PossessionLossType(row) ==
    IF row.penalty_area_start THEN "possession_loss_penalty_area"
    ELSE IF row.third_start = "defensive_third" THEN "possession_loss_defensive_third"
    ELSE IF row.third_start = "middle_third" THEN "possession_loss_middle_third"
    ELSE "possession_loss_attacking_third"

IsPossessionLoss(row) ==
    \/ row.end_type = "possession_loss"
    \/ row.associated_player_possession_end_type = "possession_loss"

PossessionLossEvent(row) == Event(row, PossessionLossType(row))

_detect_possession_losses(df) ==
    LET losses == SelectSeq(df, IsPossessionLoss)
    IN  [i \in 1..Len(losses) |-> PossessionLossEvent(losses[i])]

FailedPassType(row) ==
    IF row.pass_outcome = "offside" THEN "failed_pass_offside"
    ELSE IF row.dangerous THEN "failed_pass_dangerous"
    ELSE IF row.lead_to_shot THEN "failed_pass_lead_to_shot"
    ELSE "failed_pass"

IsFailedPass(row) == row.pass_outcome \in {"unsuccessful", "offside"}

FailedPassEvent(row) == Event(row, FailedPassType(row))

_detect_failed_passes(df) ==
    LET failed == SelectSeq(df, IsFailedPass)
    IN  [i \in 1..Len(failed) |-> FailedPassEvent(failed[i])]

IsGoalAfter(row) == row.game_interruption_after \in {"goal_for", "goal_against"}

IsGoalLead(row) == row.lead_to_goal

\* A mutant of drop_duplicates: nothing is dropped.
KeepDuplicates(rows) == rows

\* DataFrame.drop_duplicates(subset=['event_id']): the first row of each id stays
drop_duplicates(rows) ==
    LET keep == { i \in 1..Len(rows) :
                    \A j \in 1..(i - 1) : rows[j].event_id # rows[i].event_id }
        F[i \in 0..Len(rows)] ==
            IF i = 0 THEN <<>>
            ELSE IF i \in keep THEN Append(F[i - 1], rows[i]) ELSE F[i - 1]
    IN  F[Len(rows)]

\* "goal_type" is the if/elif chain of the loop; "skip" is its continue
GoalTypeLeadFirst(row) ==
    IF row.lead_to_goal THEN "goal_scored"
    ELSE IF row.game_interruption_after = "goal_for" THEN "goal_scored"
    ELSE IF row.game_interruption_after = "goal_against" THEN "goal_conceded"
    ELSE "skip"

GoalType(row) ==
    IF row.game_interruption_after = "goal_for" THEN "goal_scored"
    ELSE IF row.game_interruption_after = "goal_against" THEN "goal_conceded"
    ELSE IF row.lead_to_goal THEN "goal_scored"
    ELSE "skip"

IsClassifiedGoal(row) == GoalType(row) # "skip"

GoalEvent(row) == Event(row, GoalType(row))

_detect_goals(df) ==
    LET goals_after == SelectSeq(df, IsGoalAfter)
        goals_lead == SelectSeq(df, IsGoalLead)
        all_goals == drop_duplicates(goals_after \o goals_lead)
        classified == SelectSeq(all_goals, IsClassifiedGoal)
    IN  [i \in 1..Len(classified) |-> GoalEvent(classified[i])]

IsClearance(row) == row.end_type = "clearance"

\* clearances that do not lead to a shot are skipped by the loop's continue
IsDefensiveError(row) == row.lead_to_shot

DefensiveErrorEvent(row) == Event(row, "defensive_error_lead_to_shot")

_detect_defensive_errors(df) ==
    LET clearances == SelectSeq(df, IsClearance)
        errors == SelectSeq(clearances, IsDefensiveError)
    IN  [i \in 1..Len(errors) |-> DefensiveErrorEvent(errors[i])]

InterceptionType(row) ==
    IF row.dangerous THEN "interception_conceded_dangerous"
    ELSE IF row.third_start = "defensive_third"
    THEN "interception_conceded_defensive_third"
    ELSE "interception_conceded"

IsInterception(row) == row.start_type = "pass_interception"

InterceptionEvent(row) == Event(row, InterceptionType(row))

_detect_interceptions_conceded(df) ==
    LET interceptions == SelectSeq(df, IsInterception)
    IN  [i \in 1..Len(interceptions) |-> InterceptionEvent(interceptions[i])]

\* df['event_type'].map(event_weights).fillna(0.5)
WithWeight(w, e) ==
    [event_id |-> e.event_id, timestamp |-> e.timestamp,
     event_type |-> e.event_type, row |-> e.row,
     event_weight |-> IF e.event_type \in DOMAIN w THEN w[e.event_type] ELSE Rat(1, 2)]

\* sort_values('timestamp'): ascending; rows of equal timestamp keep their order
\* (the tables here are far below the length at which the sort stops being stable)
RECURSIVE Insert(_, _)
Insert(sorted, e) ==
    IF sorted = <<>> THEN <<e>>
    ELSE IF sorted[Len(sorted)].timestamp <= e.timestamp THEN Append(sorted, e)
    ELSE Append(Insert(SubSeq(sorted, 1, Len(sorted) - 1), e), sorted[Len(sorted)])

\* A mutant of sort_values: the rows stay in detector order.
NoSort(rows) == rows

sort_values(rows) ==
    LET F[i \in 0..Len(rows)] == IF i = 0 THEN <<>> ELSE Insert(F[i - 1], rows[i])
    IN  F[Len(rows)]

detect_critical_events(w, df) ==
    LET critical_events ==
            _detect_possession_losses(df) \o _detect_failed_passes(df)
            \o _detect_goals(df) \o _detect_defensive_errors(df)
            \o _detect_interceptions_conceded(df)
    IN  IF critical_events = <<>> THEN <<>>
        ELSE sort_values([i \in 1..Len(critical_events) |->
                             WithWeight(w, critical_events[i])])

(***************************************************************************)
(* BaselineCalculator                                                      *)
(*                                                                         *)
(* A tracking frame is [frame, timestamp, period, player_data, possession] *)
(* with player_data a list of [player_id, x, y].  Coordinates are taken    *)
(* from points whose distances are whole numbers, so that np.sqrt is       *)
(* exact; means are exact rationals.                                       *)
(***************************************************************************)
RECURSIVE SqrtSearch(_, _, _)
SqrtSearch(n, lo, hi) ==
    IF lo >= hi THEN lo
    ELSE LET mid == (lo + hi + 1) \div 2
         IN  IF mid * mid <= n THEN SqrtSearch(n, mid, hi)
             ELSE SqrtSearch(n, lo, mid - 1)

\* the whole part of np.sqrt(n)
ISqrt(n) == SqrtSearch(n, 0, IF n < 40000 THEN n ELSE 40000)

RatSub(p, q) == RatAdd(p, Rat(0 - q[1], q[2]))

RatMul(p, q) == Rat(p[1] * q[1], p[2] * q[2])

\* sum(values) of a list of rationals
RECURSIVE SumSeq(_)
SumSeq(values) ==
    IF values = <<>> THEN RatZero ELSE RatAdd(Head(values), SumSeq(Tail(values)))

\* "np.mean(values) if values else 0"
MeanOrZero(values) ==
    IF values = <<>> THEN RatZero ELSE RatDiv(SumSeq(values), Rat(Len(values), 1))

\* "np.std(values) if values else 0": the root of the mean squared deviation,
\* to three decimal places
StdOrZero(values) ==
    IF values = <<>> THEN RatZero
    ELSE LET mu == RatDiv(SumSeq(values), Rat(Len(values), 1))
             sq == [i \in 1..Len(values) |->
                       RatMul(RatSub(values[i], mu), RatSub(values[i], mu))]
             var == RatDiv(SumSeq(sq), Rat(Len(values), 1))
         IN  Rat(ISqrt((var[1] * 1000000) \div var[2]), 1000)

\* the matches of all_matches_data, in dictionary order, and their match_json
MatchIds == <<"m1", "m2">>

all_matches_data ==
    [m \in {"m1", "m2"} |->
        IF m = "m1" THEN [home_team |-> 10, away_team |-> 20]
        ELSE [home_team |-> 20, away_team |-> 30]]

PlayerIds == {0, 7, 9}

TeamIds == {10, 20, 30}

Player(id, x, y) == [player_id |-> id, x |-> x, y |-> y]

\* what a corpus frame may hold: its player_data and its possession group
CorpusFrameShapes ==
    { [player_data |-> <<>>, possession |-> "none"],
      [player_data |-> <<Player(0, 3, 4)>>, possession |-> "home"],
      [player_data |-> <<Player(7, 0, 0)>>, possession |-> "home"],
      [player_data |-> <<Player(7, 3, 4)>>, possession |-> "away"],
      [player_data |-> <<Player(0, 0, 0), Player(7, 0, 0)>>, possession |-> "away"],
      [player_data |-> <<Player(0, 0, 0), Player(7, 3, 4)>>, possession |-> "none"],
      [player_data |-> <<Player(7, 0, 0), Player(9, 3, 4)>>, possession |-> "home"],
      [player_data |-> <<Player(9, 0, 0)>>, possession |-> "away"] }

Periods == {1, 2}

\* the frames of the corpus that calculate_baselines walks: every match of
\* all_matches_data, in order, each with its frames in list order
RECURSIVE CorpusFrames(_, _)
CorpusFrames(tracking, k) ==
    IF k = 0 THEN <<>>
    ELSE CorpusFrames(tracking, k - 1) \o
         [i \in 1..Len(tracking[MatchIds[k]]) |->
             [match_id |-> MatchIds[k], frame |-> tracking[MatchIds[k]][i]]]

\* the samples pass 1 accumulates for one player: one [x, y, dist_to_center] for
\* each entry of the player in a frame; "if not player_id: continue" skips
\* player id 0
RECURSIVE PlayerSamples(_, _)
PlayerSamples(frames, pid) ==
    IF frames = <<>> THEN <<>>
    ELSE LET pd == Head(frames).frame.player_data
             hits == SelectSeq(pd, LAMBDA q : q.player_id = pid /\ q.player_id # 0)
         IN  [i \in 1..Len(hits) |->
                 [x |-> hits[i].x, y |-> hits[i].y,
                  dist_to_center |-> ISqrt(hits[i].x * hits[i].x + hits[i].y * hits[i].y)]]
             \o PlayerSamples(Tail(frames), pid)

\* the number of frames whose possession pass 1 credits to a team
PossessionFrames(frames, team_id) ==
    Cardinality({ i \in 1..Len(frames) :
        LET mj == all_matches_data[frames[i].match_id]
            group == frames[i].frame.possession
        IN  \/ group = "home" /\ mj.home_team = team_id
            \/ group = "away" /\ mj.away_team = team_id })

Field(samples, name) == [i \in 1..Len(samples) |-> Rat(samples[i][name], 1)]

\* dict.update: the entries of new replace or extend those of old
DictUpdate(old, new) ==
    [k \in DOMAIN old \cup DOMAIN new |-> IF k \in DOMAIN new THEN new[k] ELSE old[k]]

\* A mutant of calculate_baselines: the new means are added to the entry a player
\* already has ("+=" in place of "=").
BaselinesBlended(pb, tb, tracking) ==
    LET frames == CorpusFrames(tracking, Len(MatchIds))
        seen == { pid \in PlayerIds : PlayerSamples(frames, pid) # <<>> }
        teams == { t \in TeamIds : PossessionFrames(frames, t) > 0 }
        fresh(pid) ==
            LET samples == PlayerSamples(frames, pid)
            IN  [x_mean |-> MeanOrZero(Field(samples, "x")),
                 y_mean |-> MeanOrZero(Field(samples, "y")),
                 dist_to_center_mean |-> MeanOrZero(Field(samples, "dist_to_center"))]
        blend(old, new) ==
            [k \in DOMAIN new |->
                IF k \in DOMAIN old
                THEN RatAdd(old[k], new[k]) ELSE new[k]]
    IN  [player_baselines |->
            DictUpdate(pb, [pid \in seen |->
                IF pid \in DOMAIN pb THEN blend(pb[pid], fresh(pid)) ELSE fresh(pid)]),
         team_baselines |->
            DictUpdate(tb, [t \in teams |->
                [possession_rate |-> PossessionFrames(frames, t)]])]

\* calculate_baselines: each player seen gets a new entry holding the three
\* positional means (an entry the player had is replaced); each team credited
\* with a possession frame gets its count.
calculate_baselines(pb, tb, tracking) ==
    LET frames == CorpusFrames(tracking, Len(MatchIds))
        seen == { pid \in PlayerIds : PlayerSamples(frames, pid) # <<>> }
        teams == { t \in TeamIds : PossessionFrames(frames, t) > 0 }
    IN  [player_baselines |->
            DictUpdate(pb, [pid \in seen |->
                LET samples == PlayerSamples(frames, pid)
                IN  [x_mean |-> MeanOrZero(Field(samples, "x")),
                     y_mean |-> MeanOrZero(Field(samples, "y")),
                     dist_to_center_mean |->
                         MeanOrZero(Field(samples, "dist_to_center"))]]),
         team_baselines |->
            DictUpdate(tb, [t \in teams |->
                [possession_rate |-> PossessionFrames(frames, t)]])]


\* sorted(tracking_frames, key=(period, timestamp)): a stable sort
RECURSIVE InsertFrame(_, _)
InsertFrame(sorted, f) ==
    IF sorted = <<>> THEN <<f>>
    ELSE LET last == sorted[Len(sorted)]
         IN  IF \/ last.period < f.period
                \/ (last.period = f.period /\ last.timestamp <= f.timestamp)
             THEN Append(sorted, f)
             ELSE Append(InsertFrame(SubSeq(sorted, 1, Len(sorted) - 1), f), last)

SortFrames(frames) ==
    LET F[i \in 0..Len(frames)] ==
            IF i = 0 THEN <<>> ELSE InsertFrame(F[i - 1], frames[i])
    IN  F[Len(frames)]

\* {p.get('player_id'): p for p in player_data}: the last entry of an id wins
PlayersById(player_data) ==
    [pid \in { player_data[i].player_id : i \in 1..Len(player_data) } |->
        LET last == CHOOSE i \in 1..Len(player_data) :
                        /\ player_data[i].player_id = pid
                        /\ \A j \in (i + 1)..Len(player_data) :
                               player_data[j].player_id # pid
        IN  player_data[last]]

\* the [velocity, distance] samples pass 2 collects for a player from the
\* consecutive pairs (i-1, i), i <= k, of one match's sorted frames
RECURSIVE PairSamples(_, _, _)
PairSamples(sorted_frames, k, pid) ==
    IF k < 2 THEN <<>>
    ELSE LET prev_frame == sorted_frames[k - 1]
             curr_frame == sorted_frames[k]
             dt == curr_frame.timestamp - prev_frame.timestamp
             prev_players == PlayersById(prev_frame.player_data)
             curr_players == PlayersById(curr_frame.player_data)
             rest == PairSamples(sorted_frames, k - 1, pid)
         IN  IF /\ prev_frame.period = curr_frame.period
                /\ dt > 0
                /\ pid \in DOMAIN curr_players
                /\ pid \in DOMAIN prev_players
             THEN LET dx == curr_players[pid].x - prev_players[pid].x
                      dy == curr_players[pid].y - prev_players[pid].y
                      distance == ISqrt(dx * dx + dy * dy)
                  IN  Append(rest, [velocity |-> Rat(distance, dt),
                                    distance |-> Rat(distance, 1)])
             ELSE rest

\* the samples of a player over the first k matches; a match with fewer than
\* two frames is skipped
RECURSIVE VelocitySamples(_, _, _)
VelocitySamples(tracking, k, pid) ==
    IF k = 0 THEN <<>>
    ELSE LET match_frames == tracking[MatchIds[k]]
         IN  VelocitySamples(tracking, k - 1, pid) \o
             (IF Len(match_frames) < 2 THEN <<>>
              ELSE PairSamples(SortFrames(match_frames), Len(match_frames), pid))

\* A mutant of calculate_velocity_baselines: every player of the model gets the
\* speed fields, also one without a speed sample.
VelocityBaselinesForAll(pb, tracking) ==
    DictUpdate(pb, [pid \in PlayerIds |->
        LET samples == VelocitySamples(tracking, Len(MatchIds), pid)
            velocities == [i \in 1..Len(samples) |-> samples[i].velocity]
            distances == [i \in 1..Len(samples) |-> samples[i].distance]
        IN  DictUpdate(IF pid \in DOMAIN pb THEN pb[pid] ELSE <<>>,
                       [velocity_mean |-> MeanOrZero(velocities),
                        velocity_std |-> StdOrZero(velocities),
                        distance_per_frame_mean |-> MeanOrZero(distances)])])

\* calculate_velocity_baselines: each player with a speed sample has the three
\* speed fields written into its entry (a new, empty entry if it had none).
calculate_velocity_baselines(pb, tracking) ==
    LET moved == { pid \in PlayerIds :
                     VelocitySamples(tracking, Len(MatchIds), pid) # <<>> }
    IN  DictUpdate(pb, [pid \in moved |->
            LET samples == VelocitySamples(tracking, Len(MatchIds), pid)
                velocities == [i \in 1..Len(samples) |-> samples[i].velocity]
                distances == [i \in 1..Len(samples) |-> samples[i].distance]
            IN  DictUpdate(IF pid \in DOMAIN pb THEN pb[pid] ELSE <<>>,
                           [velocity_mean |-> MeanOrZero(velocities),
                            velocity_std |-> StdOrZero(velocities),
                            distance_per_frame_mean |-> MeanOrZero(distances)])])

\* A mutant of get_player_baseline: a player without an entry gets an all-zero
\* baseline instead of the empty mapping.
GetPlayerBaselineOrDefault(pb, player_id) ==
    IF player_id \in DOMAIN pb THEN pb[player_id]
    ELSE [x_mean |-> RatZero, y_mean |-> RatZero, dist_to_center_mean |-> RatZero]

\* get_player_baseline: the entry, or the empty mapping
get_player_baseline(pb, player_id) ==
    IF player_id \in DOMAIN pb THEN pb[player_id] ELSE <<>>


(***************************************************************************)
(* MetricsCalculator.calculate_crt                                         *)
(*                                                                         *)
(* Timestamps and window lengths are whole numbers of ticks of 0.1 s.      *)
(* The linear algebra (np.cov, np.linalg.inv, scipy's mahalanobis) is not  *)
(* computed: the covariance plus 0.01 I is positive definite, so the       *)
(* inversion succeeds and the distance of a sample is 0 exactly when its   *)
(* feature vector equals the baseline vector; for every other feature      *)
(* vector the distance is an input of the call (dist), one value per       *)
(* vector, in thousandths.  The EWMA is computed in thousandths.           *)
(*                                                                         *)
(* Sums and differences of timestamps are Python float operations: the     *)
(* exact result rounded to the nearest representable number, ties to the   *)
(* even significand.  The significand has SignificandBits bits here (53 in *)
(* the program), so that whole numbers of ticks below 2^SignificandBits    *)
(* are exact and larger ones are rounded.                                  *)
(***************************************************************************)
TicksPerSecond == 10

SignificandBits == 11

RECURSIVE Pow2(_)
Pow2(k) == IF k = 0 THEN 1 ELSE 2 * Pow2(k - 1)

\* whole numbers below this one are floats
FirstInexact == Pow2(SignificandBits)

\* the spacing of the representable numbers around a >= 0
RECURSIVE Spacing(_, _)
Spacing(a, q) == IF a < FirstInexact * q THEN q ELSE Spacing(a, 2 * q)

\* a >= 0 rounded to a multiple of q, ties to the even multiple
RoundToEven(a, q) ==
    LET m == a \div q
        r == a - m * q
    IN  IF 2 * r < q THEN m * q
        ELSE IF 2 * r > q THEN (m + 1) * q
        ELSE IF m % 2 = 0 THEN m * q ELSE (m + 1) * q

\* the float nearest to the exact number x
Fl(x) ==
    IF x < 0 THEN 0 - RoundToEven(0 - x, Spacing(0 - x, 1))
    ELSE RoundToEven(x, Spacing(x, 1))

\* a + b and a - b on floats
FloatAdd(a, b) == Fl(a + b)

FloatSub(a, b) == Fl(a - b)

MinWindowFrames == 10

MinPlayerSamples == 5

\* |timestamp - error_timestamp| < 0.5
HalfSecond == 5

\* the threshold 1.0, in thousandths
Threshold == 1000

\* distances a sample off the baseline vector may have: 0.5 and 2.0
DistLevels == {500, 2000}

NoResult == [returned |-> FALSE, is_none |-> TRUE, value |-> 0]

None == [returned |-> TRUE, is_none |-> TRUE, value |-> 0]

Value(v) == [returned |-> TRUE, is_none |-> FALSE, value |-> v]

\* the index of the first frame with the event's frame id, or within half a
\* second of its timestamp; 0 if there is none
ErrorFrameIdx(frames, error_timestamp, error_frame) ==
    LET hits == { i \in 1..Len(frames) :
                    \/ frames[i].frame = error_frame
                    \/ Abs(FloatSub(frames[i].timestamp, error_timestamp)) < HalfSecond }
    IN  IF hits = {} THEN 0 ELSE CHOOSE i \in hits : \A j \in hits : i <= j

\* the indices of post_error_frames, in list order
PostErrorIdx(frames, error_period, error_timestamp, window_seconds) ==
    LET keep == { i \in 1..Len(frames) :
                    /\ frames[i].period = error_period
                    /\ frames[i].timestamp >= error_timestamp
                    /\ frames[i].timestamp <= FloatAdd(error_timestamp, window_seconds) }
        F[i \in 0..Len(frames)] ==
            IF i = 0 THEN <<>>
            ELSE IF i \in keep THEN Append(F[i - 1], i) ELSE F[i - 1]
    IN  F[Len(frames)]

\* next((p for p in player_data if p.get('player_id') == player_id), None):
\* the index of the first entry of the player, or 0
FindPlayer(player_data, player_id) ==
    LET hits == { i \in 1..Len(player_data) : player_data[i].player_id = player_id }
    IN  IF hits = {} THEN 0 ELSE CHOOSE i \in hits : \A j \in hits : i <= j

\* np.sqrt(dx**2 + dy**2) / dt, in metres a second, dt in ticks
Speed(dx, dy, dt) == Rat(ISqrt(dx * dx + dy * dy) * TicksPerSecond, dt)

\* A mutant of the sample loop: a frame without the actor still yields a sample
\* (at the origin) instead of being skipped.
RECURSIVE PlayerMetricsNoSkip(_, _, _, _)
PlayerMetricsNoSkip(frames, post, k, player_id) ==
    IF k = 0 THEN <<>>
    ELSE LET done == PlayerMetricsNoSkip(frames, post, k - 1, player_id)
             frame == frames[post[k]]
             at == FindPlayer(frame.player_data, player_id)
             x == IF at = 0 THEN 0 ELSE frame.player_data[at].x
             y == IF at = 0 THEN 0 ELSE frame.player_data[at].y
         IN  Append(done, [timestamp |-> frame.timestamp, x |-> x, y |-> y,
                           dist_to_center |-> ISqrt(x * x + y * y),
                           velocity |-> RatZero])

\* player_metrics after the first k frames of post_error_frames: a frame
\* without the actor is skipped; the speed of the first sample is taken against
\* the frame before it in the full list, the speed of a later sample against
\* the sample before it
RECURSIVE PlayerMetrics(_, _, _, _)
PlayerMetrics(frames, post, k, player_id) ==
    IF k = 0 THEN <<>>
    ELSE LET done == PlayerMetrics(frames, post, k - 1, player_id)
             frame_idx == post[k]
             frame == frames[frame_idx]
             at == FindPlayer(frame.player_data, player_id)
         IN  IF at = 0 THEN done
             ELSE LET x == frame.player_data[at].x
                      y == frame.player_data[at].y
                      velocity ==
                          IF done # <<>>
                          THEN LET prev_metrics == done[Len(done)]
                                   dt == FloatSub(frame.timestamp, prev_metrics.timestamp)
                               IN  IF dt > 0
                                   THEN Speed(x - prev_metrics.x, y - prev_metrics.y, dt)
                                   ELSE RatZero
                          ELSE IF frame_idx > 1
                          THEN LET prev_frame == frames[frame_idx - 1]
                                   pat == FindPlayer(prev_frame.player_data, player_id)
                                   dt == FloatSub(frame.timestamp, prev_frame.timestamp)
                               IN  IF pat # 0 /\ dt > 0
                                   THEN Speed(x - prev_frame.player_data[pat].x,
                                              y - prev_frame.player_data[pat].y, dt)
                                   ELSE RatZero
                          ELSE RatZero
                  IN  Append(done, [timestamp |-> frame.timestamp, x |-> x, y |-> y,
                                    dist_to_center |-> ISqrt(x * x + y * y),
                                    velocity |-> velocity])

\* [x, y, dist_to_center, velocity] of a sample
FeatureVector(m) == <<Rat(m.x, 1), Rat(m.y, 1), Rat(m.dist_to_center, 1), m.velocity>>

\* baseline.get(key, 0)
GetOrZero(baseline, key) == IF key \in DOMAIN baseline THEN baseline[key] ELSE RatZero

BaselineVector(baseline) ==
    <<GetOrZero(baseline, "x_mean"), GetOrZero(baseline, "y_mean"),
      GetOrZero(baseline, "dist_to_center_mean"), GetOrZero(baseline, "velocity_mean")>>

\* A mutant of the distance: no vector is at distance 0, not even the baseline
\* vector itself.
MahalanobisNeverZero(current_vector, baseline_vector, dist) == 2 * Threshold

\* mahalanobis(current_vector, baseline_vector, inv_cov), in thousandths
Mahalanobis(current_vector, baseline_vector, dist) ==
    IF current_vector = baseline_vector THEN 0 ELSE dist[current_vector]

\* ewma_values: alpha = 0.3, seeded with the first distance
RECURSIVE Ewma(_, _)
Ewma(distances, k) ==
    IF k = 1 THEN <<distances[1]>>
    ELSE LET before == Ewma(distances, k - 1)
         IN  Append(before, (3 * distances[k] + 7 * before[k - 1]) \div 10)

\* A mutant of the threshold search: when no smoothed distance is below the
\* threshold, the last index is taken instead of none.
FirstBelowOrLast(ewma_values) ==
    LET hits == { i \in 1..Len(ewma_values) : ewma_values[i] < Threshold }
    IN  IF hits = {} THEN Len(ewma_values)
        ELSE CHOOSE i \in hits : \A j \in hits : i <= j

\* the first index whose smoothed distance is below the threshold, or 0
FirstBelow(ewma_values) ==
    LET hits == { i \in 1..Len(ewma_values) : ewma_values[i] < Threshold }
    IN  IF hits = {} THEN 0 ELSE CHOOSE i \in hits : \A j \in hits : i <= j

\* the feature vectors, other than the baseline vector, of the samples a call
\* retains: the domain of its dist input
OffBaselineVectors(pb, args, frames) ==
    LET idx == ErrorFrameIdx(frames, args.error_timestamp, args.error_frame)
        post == IF idx = 0 THEN <<>>
                ELSE PostErrorIdx(frames, frames[idx].period, args.error_timestamp,
                                  args.window_seconds)
        player_metrics == PlayerMetrics(frames, post, Len(post), args.player_id)
    IN  { FeatureVector(player_metrics[i]) : i \in 1..Len(player_metrics) }
        \ { BaselineVector(get_player_baseline(pb, args.player_id)) }

NoLocals == [player_metrics |-> <<>>, ewma_values |-> <<>>]

\* calculate_crt, run to its return: the value returned (result) and the
\* locals player_metrics and ewma_values at that point (locals); a call that
\* returns before line 75 has built neither, one that returns at line 117 has
\* no ewma_values
CrtRun(pb, args, frames, dist) ==
    LET idx == ErrorFrameIdx(frames, args.error_timestamp, args.error_frame)
    IN  IF idx = 0 THEN [result |-> None, locals |-> NoLocals]
        ELSE
        LET error_period == frames[idx].period
            post == PostErrorIdx(frames, error_period, args.error_timestamp,
                                 args.window_seconds)
            baseline == get_player_baseline(pb, args.player_id)
        IN  IF Len(post) < MinWindowFrames THEN [result |-> None, locals |-> NoLocals]
            ELSE IF DOMAIN baseline = {} THEN [result |-> None, locals |-> NoLocals]
            ELSE
            LET player_metrics == PlayerMetrics(frames, post, Len(post), args.player_id)
            IN  IF Len(player_metrics) < MinPlayerSamples
                THEN [result |-> None,
                      locals |-> [player_metrics |-> player_metrics,
                                  ewma_values |-> <<>>]]
                ELSE
                LET baseline_vector == BaselineVector(baseline)
                    mahalanobis_distances ==
                        [i \in 1..Len(player_metrics) |->
                            Mahalanobis(FeatureVector(player_metrics[i]),
                                        baseline_vector, dist)]
                    ewma_values == Ewma(mahalanobis_distances,
                                        Len(mahalanobis_distances))
                    i == FirstBelow(ewma_values)
                    locals == [player_metrics |-> player_metrics,
                               ewma_values |-> ewma_values]
                IN  IF i # 0
                    THEN [result |-> Value(FloatSub(player_metrics[i].timestamp,
                                                    args.error_timestamp)),
                          locals |-> locals]
                    ELSE [result |-> Value(args.window_seconds), locals |-> locals]

calculate_crt(pb, args, frames, dist) == CrtRun(pb, args, frames, dist).result

CrtLocals(pb, args, frames, dist) == CrtRun(pb, args, frames, dist).locals


(***************************************************************************)
(* MetricsCalculator.calculate_tsi                                         *)
(*                                                                         *)
(* A phase of play is a row [team_in_possession_id,                        *)
(* team_out_of_possession_id, time_start, the width and length of the team *)
(* out of possession, the width and length of the team in possession].     *)
(* tracking_frames[error_frame] indexes the list from 0 and raises         *)
(* IndexError past its end.  Scores are exact rationals.                   *)
(***************************************************************************)
MinTsiFrames == 5

MinPhases == 1

\* tracking_frames[k] does not raise (k >= 0)
IndexOk(frames, k) == k < Len(frames)

\* tracking_frames[k]
AtIndex(frames, k) == frames[k + 1]

\* the indices in keep, in list order
SelectIdx(frames, keep) ==
    LET F[i \in 0..Len(frames)] ==
            IF i = 0 THEN <<>>
            ELSE IF i \in keep THEN Append(F[i - 1], i) ELSE F[i - 1]
    IN  F[Len(frames)]

\* pre_frames: same period, error_timestamp - window_seconds <= timestamp <
\* error_timestamp
PreFrames(frames, error_period, error_timestamp, window_seconds) ==
    LET lo == FloatSub(error_timestamp, window_seconds)
    IN  SelectIdx(frames, { i \in 1..Len(frames) :
                              /\ frames[i].period = error_period
                              /\ lo <= frames[i].timestamp
                              /\ frames[i].timestamp < error_timestamp })

\* post_frames: same period, error_timestamp <= timestamp <=
\* error_timestamp + window_seconds
PostFrames(frames, error_period, error_timestamp, window_seconds) ==
    LET hi == FloatAdd(error_timestamp, window_seconds)
    IN  SelectIdx(frames, { i \in 1..Len(frames) :
                              /\ frames[i].period = error_period
                              /\ error_timestamp <= frames[i].timestamp
                              /\ frames[i].timestamp <= hi })

\* the distances from the actor to every other entry of a frame's player_data,
\* none if the actor is not in the frame
FrameDistances(frame, player_id) ==
    LET at == FindPlayer(frame.player_data, player_id)
        others == SelectSeq(frame.player_data, LAMBDA p : p.player_id # player_id)
    IN  IF at = 0 THEN <<>>
        ELSE [i \in 1..Len(others) |->
                 Rat(ISqrt((others[i].x - frame.player_data[at].x)
                               * (others[i].x - frame.player_data[at].x)
                           + (others[i].y - frame.player_data[at].y)
                               * (others[i].y - frame.player_data[at].y)), 1)]

\* avg_team_distance: the mean over all the frames' distances, 100.0 if none
RECURSIVE AllDistances(_, _, _, _)
AllDistances(frames, idx, k, player_id) ==
    IF k = 0 THEN <<>>
    ELSE AllDistances(frames, idx, k - 1, player_id)
             \o FrameDistances(frames[idx[k]], player_id)

avg_team_distance(frames, idx, player_id) ==
    LET distances == AllDistances(frames, idx, Len(idx), player_id)
    IN  IF distances = <<>> THEN Rat(100, 1)
        ELSE RatDiv(SumSeq(distances), Rat(Len(distances), 1))

\* (pre - post) / pre if pre > 0 else 0.0
RelativeDrop(pre, post) ==
    IF RatPos(pre) THEN RatDiv(RatSub(pre, post), pre) ELSE RatZero

\* (post - pre) / pre if pre > 0 else 0.0
RelativeGain(pre, post) ==
    IF RatPos(pre) THEN RatDiv(RatSub(post, pre), pre) ELSE RatZero

_calculate_proximity_component(args, frames) ==
    LET error_period == AtIndex(frames, args.error_frame).period
        pre == PreFrames(frames, error_period, args.error_timestamp, args.window_seconds)
        post == PostFrames(frames, error_period, args.error_timestamp, args.window_seconds)
    IN  IF Len(pre) < MinTsiFrames \/ Len(post) < MinTsiFrames THEN RatZero
        ELSE RelativeDrop(avg_team_distance(frames, pre, args.player_id),
                          avg_team_distance(frames, post, args.player_id))

\* possession_rate: the share of the frames whose possession group is side
possession_rate(frames, idx, side) ==
    IF idx = <<>> THEN RatZero
    ELSE Rat(Cardinality({ i \in 1..Len(idx) : frames[idx[i]].possession = side }),
             Len(idx))

\* the side is 'home' if the event frame's possession group is 'home', and
\* 'away' otherwise
_calculate_possession_component(args, frames) ==
    LET error_frame_data == AtIndex(frames, args.error_frame)
        is_home == error_frame_data.possession = "home"
        side == IF is_home THEN "home" ELSE "away"
        error_period == error_frame_data.period
        pre == PreFrames(frames, error_period, args.error_timestamp, args.window_seconds)
        post == PostFrames(frames, error_period, args.error_timestamp, args.window_seconds)
    IN  IF Len(pre) < MinTsiFrames \/ Len(post) < MinTsiFrames THEN RatZero
        ELSE RelativeGain(possession_rate(frames, pre, side),
                          possession_rate(frames, post, side))

\* _parse_phase_time: as _parse_time, in units of 1/TimeScale of a second
_parse_phase_time(t) ==
    IF t.kind # "str" THEN 0
    ELSE IF Count(t.s, ":") > 0
    THEN LET parts == Split(t.s, ":")
         IN  IF IntOk(parts[1]) /\ FloatOk(parts[2])
             THEN DecVal(parts[1]) * 60 * TimeScale + FloatVal(parts[2])
             ELSE 0
    ELSE IF FloatOk(t.s) THEN FloatVal(t.s) ELSE 0

\* a number of ticks in the unit of _parse_phase_time
TicksToParsed(t) == t * (TimeScale \div TicksPerSecond)

\* avg_compactness: the mean width * length of the team out of possession over
\* the phases where both are positive, 1000.0 if there is none
avg_compactness(phases) ==
    LET sized == SelectSeq(phases, LAMBDA ph :
                     /\ ph.team_out_of_possession_width_start > 0
                     /\ ph.team_out_of_possession_length_start > 0)
    IN  IF sized = <<>> THEN Rat(1000, 1)
        ELSE RatDiv(SumSeq([i \in 1..Len(sized) |->
                               Rat(sized[i].team_out_of_possession_width_start
                                     * sized[i].team_out_of_possession_length_start, 1)]),
                    Rat(Len(sized), 1))

\* the phases kept are those with team_in_possession_id = team_id
_calculate_structure_component(args, phases) ==
    LET mine == SelectSeq(phases, LAMBDA ph : ph.team_in_possession_id = args.team_id)
        lo == TicksToParsed(FloatSub(args.error_timestamp, args.window_seconds))
        at == TicksToParsed(args.error_timestamp)
        hi == TicksToParsed(FloatAdd(args.error_timestamp, args.window_seconds))
        pre_phases == SelectSeq(mine, LAMBDA ph :
                          /\ lo <= _parse_phase_time(ph.time_start)
                          /\ _parse_phase_time(ph.time_start) < at)
        post_phases == SelectSeq(mine, LAMBDA ph :
                           /\ at <= _parse_phase_time(ph.time_start)
                           /\ _parse_phase_time(ph.time_start) <= hi)
    IN  IF Len(pre_phases) < MinPhases \/ Len(post_phases) < MinPhases THEN RatZero
        ELSE RelativeDrop(avg_compactness(pre_phases), avg_compactness(post_phases))

NoTsi == [returned |-> FALSE, raised |-> FALSE, proximity_score |-> RatZero,
          possession_score |-> RatZero, structure_score |-> RatZero, tsi |-> RatZero]

\* a calculate_tsi that re-normalizes the weights over the sub-scores that are
\* not zero
TsiRenormalized(args, frames, phases) ==
    IF ~IndexOk(frames, args.error_frame)
    THEN [NoTsi EXCEPT !.returned = TRUE, !.raised = TRUE]
    ELSE LET proximity_score == _calculate_proximity_component(args, frames)
             possession_score == _calculate_possession_component(args, frames)
             structure_score == _calculate_structure_component(args, phases)
             total == (IF proximity_score = RatZero THEN 0 ELSE 4)
                        + (IF possession_score = RatZero THEN 0 ELSE 3)
                        + (IF structure_score = RatZero THEN 0 ELSE 3)
             sum == RatAdd(RatAdd(RatMul(proximity_score, Rat(4, 1)),
                                  RatMul(possession_score, Rat(3, 1))),
                           RatMul(structure_score, Rat(3, 1)))
         IN  [returned |-> TRUE, raised |-> FALSE,
              proximity_score |-> proximity_score,
              possession_score |-> possession_score,
              structure_score |-> structure_score,
              tsi |-> IF total = 0 THEN RatZero ELSE RatDiv(sum, Rat(total, 1))]

\* calculate_tsi: the value returned and the three sub-scores it was built
\* from, or the IndexError of tracking_frames[error_frame]
calculate_tsi(args, frames, phases) ==
    IF ~IndexOk(frames, args.error_frame)
    THEN [NoTsi EXCEPT !.returned = TRUE, !.raised = TRUE]
    ELSE LET proximity_score == _calculate_proximity_component(args, frames)
             possession_score == _calculate_possession_component(args, frames)
             structure_score == _calculate_structure_component(args, phases)
         IN  [returned |-> TRUE, raised |-> FALSE,
              proximity_score |-> proximity_score,
              possession_score |-> possession_score,
              structure_score |-> structure_score,
              tsi |-> RatAdd(RatAdd(RatMul(proximity_score, Rat(4, 10)),
                                    RatMul(possession_score, Rat(3, 10))),
                             RatMul(structure_score, Rat(3, 10)))]


(***************************************************************************)
(* Specifications.  Each one drives one component; the variables of the    *)
(* other components keep the idle values below.                            *)
(***************************************************************************)
WeightsIdle ==
    /\ weights_arg = NoWeights
    /\ event_weights = CriticalEventDetector(NoWeights)
    /\ constructed = TRUE

ParseIdle ==
    /\ time_str = StrCell(<<>>)
    /\ parse_result = [returned |-> FALSE, value |-> 0]

DetectorIdle ==
    /\ events_df = <<>>
    /\ df_critical = <<>>
    /\ goals = <<>>
    /\ detected = FALSE

BaselineIdle ==
    /\ tracking_data_dict = [m \in {"m1", "m2"} |-> <<>>]
    /\ player_baselines = <<>>
    /\ team_baselines = <<>>
    /\ baseline_pc = "load"
    /\ runs = 0
    /\ first_run = <<>>

detector_vars == <<events_df, df_critical, goals, detected>>

baseline_vars == <<tracking_data_dict, player_baselines, team_baselines,
                   baseline_pc, runs, first_run>>

NoArgs == [player_id |-> 0, error_timestamp |-> 0, error_frame |-> 0,
           window_seconds |-> 0]

CrtIdle ==
    /\ tracking_frames = <<>>
    /\ crt_args = NoArgs
    /\ crt_result = NoResult
    /\ crt_locals = NoLocals

crt_vars == <<tracking_frames, crt_args, crt_result, crt_locals>>

NoTsiArgs == [player_id |-> 0, team_id |-> 0, error_timestamp |-> 0,
              error_frame |-> 0, window_seconds |-> 0]

TsiIdle ==
    /\ phases_df = <<>>
    /\ tsi_args = NoTsiArgs
    /\ tsi_result = NoTsi

tsi_vars == <<phases_df, tsi_args, tsi_result>>

\* a team_id cell of an event row: an id, or NaN
IntCell(v) == [kind |-> "int", v |-> v]

NaNCell == [kind |-> "NaN", v |-> 0]

NoEvent == [event_type |-> "", team_id |-> NaNCell, timestamp |-> 0,
            window_seconds |-> 0]

GiriIdle ==
    /\ giri_event = NoEvent
    /\ giri_result = NoResult

giri_vars == <<giri_event, giri_result>>

\* a system just constructed: no metrics calculator, process_all_matches not
\* called yet
NotCalled == [pc |-> "idle", load_tracking |-> FALSE, loaded |-> {},
              with_frames |-> {}, passes |-> 0, built |-> FALSE,
              processed |-> {}, calls |-> 0]

OrchIdle ==
    /\ metrics_calculator = FALSE
    /\ orch = NotCalled
    /\ evaluations = {}

orch_vars == <<metrics_calculator, orch, evaluations>>

\* no _process_match call
MatchIdle ==
    /\ critical_events_df = <<>>
    /\ results = <<>>
    /\ match_pc = "idle"
    /\ raising = {}
    /\ results_without = <<>>

match_vars == <<critical_events_df, results, match_pc, raising, results_without>>

weights_vars == <<weights_arg, event_weights, constructed>>

parse_vars == <<time_str, parse_result>>

(* ---- SpecWeights: constructing a detector ---- *)
InitWeights ==
    /\ weights_arg \in WeightArgs
    /\ event_weights = <<>>
    /\ constructed = FALSE
    /\ ParseIdle
    /\ DetectorIdle
    /\ BaselineIdle
    /\ CrtIdle
    /\ TsiIdle
    /\ GiriIdle
    /\ OrchIdle
    /\ MatchIdle

Construct ==
    /\ ~constructed
    /\ event_weights' = CriticalEventDetector(weights_arg)
    /\ constructed' = TRUE
    /\ UNCHANGED <<weights_arg, parse_vars, detector_vars, baseline_vars, crt_vars, tsi_vars, giri_vars, orch_vars, match_vars>>

NextWeights == Construct

SpecWeights == InitWeights /\ [][NextWeights]_vars

(* ---- SpecParse: one call of _parse_time ---- *)
RECURSIVE Strings(_)
Strings(n) ==
    IF n = 0 THEN {<<>>}
    ELSE LET shorter == Strings(n - 1)
         IN  shorter \cup { Append(s, c) : s \in shorter, c \in Chars }

TimeCells == { StrCell(s) : s \in Strings(MaxStrLen) } \cup NonStrCells

InitParse ==
    /\ time_str \in TimeCells
    /\ parse_result = [returned |-> FALSE, value |-> 0]
    /\ WeightsIdle
    /\ DetectorIdle
    /\ BaselineIdle
    /\ CrtIdle
    /\ TsiIdle
    /\ GiriIdle
    /\ OrchIdle
    /\ MatchIdle

ParseTime ==
    /\ ~parse_result.returned
    /\ parse_result' = [returned |-> TRUE, value |-> _parse_time(time_str)]
    /\ UNCHANGED <<time_str, weights_vars, detector_vars, baseline_vars, crt_vars, tsi_vars, giri_vars, orch_vars, match_vars>>

NextParse == ParseTime

SpecParse == InitParse /\ [][NextParse]_vars

(* ---- SpecDetector: a table is supplied row by row, then classified ---- *)
InitDetector ==
    /\ WeightsIdle
    /\ ParseIdle
    /\ DetectorIdle
    /\ BaselineIdle
    /\ CrtIdle
    /\ TsiIdle
    /\ GiriIdle
    /\ OrchIdle
    /\ MatchIdle

\* The provider appends a row; event_id is the table's key, one per row.
AddRow ==
    /\ ~detected
    /\ Len(events_df) < MaxRows
    /\ \E shape \in RowShapes, t \in TimeStarts :
          events_df' = Append(events_df,
                              [shape EXCEPT !.idx = Len(events_df) + 1,
                                            !.event_id = Len(events_df) + 1,
                                            !.time_start = t])
    /\ UNCHANGED <<df_critical, goals, detected, weights_vars, parse_vars, baseline_vars, crt_vars, tsi_vars, giri_vars, orch_vars, match_vars>>

DetectCriticalEvents ==
    /\ ~detected
    /\ df_critical' = detect_critical_events(event_weights, events_df)
    /\ goals' = _detect_goals(events_df)
    /\ detected' = TRUE
    /\ UNCHANGED <<events_df, weights_vars, parse_vars, baseline_vars, crt_vars, tsi_vars, giri_vars, orch_vars, match_vars>>

NextDetector == AddRow \/ DetectCriticalEvents

SpecDetector == InitDetector /\ [][NextDetector]_vars

(* ---- SpecBaseline: a corpus is loaded, then the two passes run over it ---- *)
InitBaseline ==
    /\ WeightsIdle
    /\ ParseIdle
    /\ DetectorIdle
    /\ BaselineIdle
    /\ CrtIdle
    /\ TsiIdle
    /\ GiriIdle
    /\ OrchIdle
    /\ MatchIdle

CorpusSize ==
    Len(tracking_data_dict["m1"]) + Len(tracking_data_dict["m2"])

\* The tracking provider appends a frame to a match: one frame a second.
LoadFrame ==
    /\ baseline_pc = "load"
    /\ runs = 0
    /\ CorpusSize < MaxCorpusFrames
    /\ \E m \in {"m1", "m2"}, shape \in CorpusFrameShapes, period \in Periods :
          tracking_data_dict' =
              [tracking_data_dict EXCEPT ![m] =
                  Append(@, [frame |-> Len(@) + 1, timestamp |-> Len(@),
                             period |-> period,
                             player_data |-> shape.player_data,
                             possession |-> shape.possession])]
    /\ UNCHANGED <<player_baselines, team_baselines, baseline_pc, runs, first_run,
                   weights_vars, parse_vars, detector_vars, crt_vars, tsi_vars, giri_vars, orch_vars, match_vars>>

\* calculate_baselines(all_matches_data, tracking_data_dict)
CalculateBaselines ==
    /\ baseline_pc \in {"load", "done"}
    /\ runs < MaxRuns
    /\ LET out == calculate_baselines(player_baselines, team_baselines,
                                      tracking_data_dict)
       IN  /\ player_baselines' = out.player_baselines
           /\ team_baselines' = out.team_baselines
    /\ baseline_pc' = "pass1"
    /\ UNCHANGED <<tracking_data_dict, runs, first_run,
                   weights_vars, parse_vars, detector_vars, crt_vars, tsi_vars, giri_vars, orch_vars, match_vars>>

\* calculate_velocity_baselines(all_matches_data, tracking_data_dict)
CalculateVelocityBaselines ==
    /\ baseline_pc = "pass1"
    /\ player_baselines' =
           calculate_velocity_baselines(player_baselines, tracking_data_dict)
    /\ baseline_pc' = "done"
    /\ runs' = runs + 1
    /\ first_run' = IF runs = 0 THEN player_baselines' ELSE first_run
    /\ UNCHANGED <<tracking_data_dict, team_baselines,
                   weights_vars, parse_vars, detector_vars, crt_vars, tsi_vars, giri_vars, orch_vars, match_vars>>

NextBaseline == LoadFrame \/ CalculateBaselines \/ CalculateVelocityBaselines

SpecBaseline == InitBaseline /\ [][NextBaseline]_vars


(* ---- SpecCrt: a match's tracking is loaded, then calculate_crt is called ---- *)
\* The baselines the calculator holds: player 7 stood still at the centre spot
\* in the corpus; player 9 has no entry.
CrtBaselines ==
    [pid \in {7} |->
        [x_mean |-> RatZero, y_mean |-> RatZero, dist_to_center_mean |-> RatZero,
         velocity_mean |-> RatZero, velocity_std |-> RatZero,
         distance_per_frame_mean |-> RatZero]]

\* what a frame of the match may hold: player 9 is in every frame; player 7 is
\* at the centre spot, away from it, or missing
CrtFrameShapes ==
    { [period |-> 1, player_data |-> <<Player(7, 0, 0), Player(9, 3, 4)>>],
      [period |-> 1, player_data |-> <<Player(7, 3, 4), Player(9, 3, 4)>>],
      [period |-> 1, player_data |-> <<Player(9, 3, 4)>>],
      [period |-> 2, player_data |-> <<Player(7, 0, 0), Player(9, 3, 4)>>] }

ShapeOf(frame) ==
    [period |-> frame.period, player_data |-> frame.player_data,
     possession |-> frame.possession]

\* the number of places where the frame shape changes
Changes(frames) ==
    Cardinality({ i \in 2..Len(frames) : ShapeOf(frames[i]) # ShapeOf(frames[i - 1]) })

\* the frame id and timestamp of the event: those of the first frame (whose id
\* the event lacks), a time 0.3 s after it, those of the second frame, or the
\* id of the second frame with the time of the first
EventPlaces ==
    { [error_frame |-> 0, error_timestamp |-> 0],
      [error_frame |-> 0, error_timestamp |-> 3],
      [error_frame |-> 2, error_timestamp |-> 10],
      [error_frame |-> 2, error_timestamp |-> 0] }

\* the arguments of a call: the actor, the event's frame id and timestamp, and
\* the window (9 s, 120 s)
CrtArgs ==
    { [player_id |-> p, error_timestamp |-> e.error_timestamp,
       error_frame |-> e.error_frame, window_seconds |-> w] :
        p \in {7, 9}, e \in EventPlaces, w \in {90, 1200} }

InitCrt ==
    /\ WeightsIdle
    /\ ParseIdle
    /\ DetectorIdle
    /\ tracking_data_dict = [m \in {"m1", "m2"} |-> <<>>]
    /\ player_baselines = CrtBaselines
    /\ team_baselines = <<>>
    /\ baseline_pc = "done"
    /\ runs = 1
    /\ first_run = CrtBaselines
    /\ CrtIdle
    /\ TsiIdle
    /\ GiriIdle
    /\ OrchIdle
    /\ MatchIdle

\* The tracking provider appends a frame: one frame a second, ids from 1.
LoadTrackingFrame ==
    /\ ~crt_result.returned
    /\ Len(tracking_frames) < MaxFrames
    /\ \E shape \in CrtFrameShapes :
          /\ tracking_frames' =
                 Append(tracking_frames,
                        [frame |-> Len(tracking_frames) + 1,
                         timestamp |-> Len(tracking_frames) * TicksPerSecond,
                         period |-> shape.period,
                         player_data |-> shape.player_data,
                         possession |-> "none"])
          /\ Changes(tracking_frames') <= MaxChanges
    /\ UNCHANGED <<crt_args, crt_result, crt_locals, weights_vars, parse_vars,
                   detector_vars, baseline_vars, tsi_vars, giri_vars, orch_vars, match_vars>>

\* calculate_crt(player_id, error_timestamp, error_frame, tracking_frames,
\*               window_seconds)
CalculateCrt ==
    /\ ~crt_result.returned
    /\ \E args \in CrtArgs :
          \E dist \in [OffBaselineVectors(player_baselines, args, tracking_frames)
                          -> DistLevels] :
              LET run == CrtRun(player_baselines, args, tracking_frames, dist)
              IN  /\ crt_args' = args
                  /\ crt_result' = run.result
                  /\ crt_locals' = run.locals
    /\ UNCHANGED <<tracking_frames, weights_vars, parse_vars, detector_vars,
                   baseline_vars, tsi_vars, giri_vars, orch_vars, match_vars>>

NextCrt == LoadTrackingFrame \/ CalculateCrt

SpecCrt == InitCrt /\ [][NextCrt]_vars

(* ---- SpecCrtLate: the same, for an event later in the match, where sums ---- *)
(* ---- of timestamps are no longer exact floats                           ---- *)
\* the timestamp of the first frame, and the time between two frames, in ticks
LateFirstTick == 852

LateStep == 120

\* the arguments of a call: an event 0.1 s before the first frame, or at it
CrtLateArgs ==
    [player_id : {7}, error_timestamp : {LateFirstTick - 1, LateFirstTick},
     error_frame : {0}, window_seconds : {1200}]

LoadLateFrame ==
    /\ ~crt_result.returned
    /\ Len(tracking_frames) < MaxFrames
    /\ \E shape \in CrtFrameShapes :
          /\ tracking_frames' =
                 Append(tracking_frames,
                        [frame |-> Len(tracking_frames) + 1,
                         timestamp |-> Fl(LateFirstTick + Len(tracking_frames) * LateStep),
                         period |-> shape.period,
                         player_data |-> shape.player_data,
                         possession |-> "none"])
          /\ Changes(tracking_frames') <= MaxChanges
    /\ UNCHANGED <<crt_args, crt_result, crt_locals, weights_vars, parse_vars,
                   detector_vars, baseline_vars, tsi_vars, giri_vars, orch_vars, match_vars>>

CalculateCrtLate ==
    /\ ~crt_result.returned
    /\ \E args \in CrtLateArgs :
          \E dist \in [OffBaselineVectors(player_baselines, args, tracking_frames)
                          -> DistLevels] :
              LET run == CrtRun(player_baselines, args, tracking_frames, dist)
              IN  /\ crt_args' = args
                  /\ crt_result' = run.result
                  /\ crt_locals' = run.locals
    /\ UNCHANGED <<tracking_frames, weights_vars, parse_vars, detector_vars,
                   baseline_vars, tsi_vars, giri_vars, orch_vars, match_vars>>

NextCrtLate == LoadLateFrame \/ CalculateCrtLate

SpecCrtLate == InitCrt /\ [][NextCrtLate]_vars

(* ---- SpecCrtOrder: a match's tracking is supplied with the actor missing ---- *)
(* ---- from one frame, then calculate_crt is called on the list as it was  ---- *)
(* ---- supplied and on the same frames in the opposite order               ---- *)
\* the frames with the actor in them
ActorShapes == { shape \in CrtFrameShapes : FindPlayer(shape.player_data, 7) # 0 }

\* the frame without the actor
AbsentShape == [period |-> 1, player_data |-> <<Player(9, 3, 4)>>]

\* list(reversed(tracking_frames))
Reversed(frames) == [i \in 1..Len(frames) |-> frames[Len(frames) + 1 - i]]

\* The tracking provider supplies a match: one frame a second, ids from 1; the
\* actor is missing from frame gap.
LoadTrackingWithGap ==
    /\ ~crt_result.returned
    /\ tracking_frames = <<>>
    /\ \E before \in ActorShapes, after \in ActorShapes, gap \in 2..(MaxFrames - 1) :
          tracking_frames' =
              [i \in 1..MaxFrames |->
                  LET shape == IF i < gap THEN before
                               ELSE IF i = gap THEN AbsentShape ELSE after
                  IN  [frame |-> i,
                       timestamp |-> (i - 1) * TicksPerSecond,
                       period |-> shape.period,
                       player_data |-> shape.player_data,
                       possession |-> "none"]]
    /\ UNCHANGED <<crt_args, crt_result, crt_locals, weights_vars, parse_vars,
                   detector_vars, baseline_vars, tsi_vars, giri_vars, orch_vars, match_vars>>

\* calculate_crt(player_id, error_timestamp, error_frame, tracking_frames,
\*               window_seconds), and the same call on the reversed list, whose
\* result is kept next to the locals of the first call
CalculateCrtBothOrders ==
    /\ ~crt_result.returned
    /\ \E args \in CrtArgs :
          \E dist \in [OffBaselineVectors(player_baselines, args, tracking_frames)
                         \cup OffBaselineVectors(player_baselines, args,
                                                 Reversed(tracking_frames))
                          -> DistLevels] :
              LET run == CrtRun(player_baselines, args, tracking_frames, dist)
                  again == CrtRun(player_baselines, args,
                                  Reversed(tracking_frames), dist)
              IN  /\ crt_args' = args
                  /\ crt_result' = run.result
                  /\ crt_locals' = [player_metrics |-> run.locals.player_metrics,
                                    ewma_values |-> run.locals.ewma_values,
                                    reversed_result |-> again.result]
    /\ UNCHANGED <<tracking_frames, weights_vars, parse_vars, detector_vars,
                   baseline_vars, tsi_vars, giri_vars, orch_vars, match_vars>>

NextCrtOrder == LoadTrackingWithGap \/ CalculateCrtBothOrders

SpecCrtOrder == InitCrt /\ [][NextCrtOrder]_vars



(* ---- SpecTsi: a match's tracking and phases are loaded, then calculate_tsi ---- *)
(* ---- is called                                                           ---- *)
\* what a frame of the match may hold: the possession group, and the actor
\* (player 7) with one other player 5 m or 10 m away
TsiFrameShapes ==
    { [period |-> 1, possession |-> "home",
       player_data |-> <<Player(7, 0, 0), Player(9, 3, 4)>>],
      [period |-> 1, possession |-> "home",
       player_data |-> <<Player(7, 0, 0), Player(9, 6, 8)>>],
      [period |-> 1, possession |-> "away",
       player_data |-> <<Player(7, 0, 0), Player(9, 6, 8)>>] }

\* the lists of n shapes with at most c places where the shape changes
RECURSIVE ShapeLists(_, _, _)
ShapeLists(shapes, n, c) ==
    IF n = 0 THEN {<<>>}
    ELSE { Append(q[1], q[2]) :
             q \in { r \in ShapeLists(shapes, n - 1, c) \X shapes :
                        \/ r[1] = <<>>
                        \/ r[2] = r[1][Len(r[1])]
                        \/ Cardinality({ i \in 2..Len(r[1]) :
                                            r[1][i] # r[1][i - 1] }) < c } }

\* a list of n frames, one a second, ids from 0: shape[i] is the shape of
\* frame i
Tracking(n, shape) ==
    [i \in 1..n |-> [frame |-> i - 1,
                     timestamp |-> (i - 1) * TicksPerSecond,
                     period |-> shape[i].period,
                     player_data |-> shape[i].player_data,
                     possession |-> shape[i].possession]]

\* the phases a table may hold: team 10 or team 20 in possession, starting
\* 1 s or 10 s into the match, the team out of possession 10 m x 10 m or
\* 20 m x 10 m
Phase(in_id, out_id, time_start, width) ==
    [team_in_possession_id |-> in_id, team_out_of_possession_id |-> out_id,
     time_start |-> StrCell(time_start),
     team_out_of_possession_width_start |-> width,
     team_out_of_possession_length_start |-> 10,
     team_in_possession_width_start |-> 30 - width,
     team_in_possession_length_start |-> 10]

PhaseShapes ==
    { Phase(10, 20, <<"0", ":", "0", "1">>, 10),
      Phase(20, 10, <<"0", ":", "0", "1">>, 20),
      Phase(10, 20, <<"0", ":", "1", "0">>, 20),
      Phase(20, 10, <<"0", ":", "1", "0">>, 10) }

\* the arguments of a call: the actor, the team (10 is home, 20 is away), the
\* event at 5 s, the frame id (5, or an id past the end of the list) and the
\* window (4 s, 120 s)
TsiArgs ==
    [player_id : {7}, team_id : {10, 20}, error_timestamp : {5 * TicksPerSecond},
     error_frame : {5, 2 * MaxFrames}, window_seconds : {40, 1200}]

InitTsi ==
    /\ WeightsIdle
    /\ ParseIdle
    /\ DetectorIdle
    /\ BaselineIdle
    /\ CrtIdle
    /\ TsiIdle
    /\ GiriIdle
    /\ OrchIdle
    /\ MatchIdle

\* The tracking provider supplies the match's list of MaxFrames frames.
LoadTsiTracking ==
    /\ ~tsi_result.returned
    /\ tracking_frames = <<>>
    /\ \E shape \in ShapeLists(TsiFrameShapes, MaxFrames, MaxChanges) :
          /\ tracking_frames' = Tracking(MaxFrames, shape)
          /\ Changes(tracking_frames') <= MaxChanges
    /\ UNCHANGED <<crt_args, crt_result, crt_locals, phases_df, tsi_args, tsi_result,
                   weights_vars, parse_vars, detector_vars, baseline_vars, giri_vars, orch_vars, match_vars>>

\* The next phase of play is appended to the table: phases come in the order
\* of their start.
AddPhase ==
    /\ ~tsi_result.returned
    /\ Len(phases_df) < MaxPhases
    /\ \E ph \in PhaseShapes :
          /\ phases_df # <<>> =>
                 _parse_phase_time(phases_df[Len(phases_df)].time_start)
                     <= _parse_phase_time(ph.time_start)
          /\ phases_df' = Append(phases_df, ph)
    /\ UNCHANGED <<tsi_args, tsi_result, crt_vars, weights_vars, parse_vars,
                   detector_vars, baseline_vars, giri_vars, orch_vars, match_vars>>

\* calculate_tsi(player_id, team_id, error_timestamp, error_frame,
\*               tracking_frames, phases_df, window_seconds)
CalculateTsi ==
    /\ ~tsi_result.returned
    /\ \E args \in TsiArgs :
          /\ tsi_args' = args
          /\ tsi_result' = calculate_tsi(args, tracking_frames, phases_df)
    /\ UNCHANGED <<phases_df, crt_vars, weights_vars, parse_vars, detector_vars,
                   baseline_vars, giri_vars, orch_vars, match_vars>>

NextTsi == LoadTsiTracking \/ AddPhase \/ CalculateTsi

SpecTsi == InitTsi /\ [][NextTsi]_vars

(***************************************************************************)
(* SpecTsiIds: calculate_tsi on tracking whose frame ids need not start    *)
(* at 0                                                                    *)
(***************************************************************************)
\* the id a provider gives the first frame of a match
FirstFrameIds == {0, 3, 17}

\* a list of n frames, one a second, ids from first
TrackingFrom(first, n, shape) ==
    [i \in 1..n |-> [frame |-> first + i - 1,
                     timestamp |-> (i - 1) * TicksPerSecond,
                     period |-> shape[i].period,
                     player_data |-> shape[i].player_data,
                     possession |-> shape[i].possession]]

\* the critical events of the match happen 5 s into it: the frame of that
\* time in a list of frames, one a second
EventIndex == 6

\* The tracking provider supplies the match's list of MaxFrames frames.
LoadNumberedTracking ==
    /\ ~tsi_result.returned
    /\ tracking_frames = <<>>
    /\ \E first \in FirstFrameIds :
       \E shape \in ShapeLists(TsiFrameShapes, MaxFrames, MaxChanges) :
          tracking_frames' = TrackingFrom(first, MaxFrames, shape)
    /\ UNCHANGED <<crt_args, crt_result, crt_locals, phases_df, tsi_args, tsi_result,
                   weights_vars, parse_vars, detector_vars, baseline_vars, giri_vars,
                   orch_vars, match_vars>>

\* calculate_tsi for an event with the frame id and the timestamp of the
\* frame 5 s into the match
CalculateTsiAtEvent ==
    /\ ~tsi_result.returned
    /\ tracking_frames # <<>>
    /\ \E team_id \in {10, 20}, window_seconds \in {40, 1200} :
          LET args == [player_id |-> 7, team_id |-> team_id,
                       error_timestamp |-> tracking_frames[EventIndex].timestamp,
                       error_frame |-> tracking_frames[EventIndex].frame,
                       window_seconds |-> window_seconds]
          IN  /\ tsi_args' = args
              /\ tsi_result' = calculate_tsi(args, tracking_frames, phases_df)
    /\ UNCHANGED <<phases_df, crt_vars, weights_vars, parse_vars, detector_vars,
                   baseline_vars, giri_vars, orch_vars, match_vars>>

NextTsiIds == LoadNumberedTracking \/ AddPhase \/ CalculateTsiAtEvent

SpecTsiIds == InitTsi /\ [][NextTsiIds]_vars

(***************************************************************************)
(* MetricsCalculator.calculate_giri, as _process_match calls it            *)
(***************************************************************************)
\* a window needs at least this many frames
MinGiriFrames == 10

\* pre_frames: goal_timestamp - window_seconds <= timestamp < goal_timestamp,
\* whatever the period
GiriPreFrames(frames, goal_timestamp, window_seconds) ==
    LET lo == FloatSub(goal_timestamp, window_seconds)
    IN  SelectSeq([i \in 1..Len(frames) |-> i], LAMBDA i :
                      /\ lo <= frames[i].timestamp
                      /\ frames[i].timestamp < goal_timestamp)

\* post_frames: goal_timestamp <= timestamp <= goal_timestamp + window_seconds
GiriPostFrames(frames, goal_timestamp, window_seconds) ==
    LET hi == FloatAdd(goal_timestamp, window_seconds)
    IN  SelectSeq([i \in 1..Len(frames) |-> i], LAMBDA i :
                      /\ goal_timestamp <= frames[i].timestamp
                      /\ frames[i].timestamp <= hi)

\* the y of every player of a frame, in the order of player_data
PlayerYs(frame) ==
    [k \in 1..Len(frame.player_data) |-> Rat(frame.player_data[k].y, 1)]

\* the sum of values[lo], ..., values[hi], by halves
RECURSIVE SumRange(_, _, _)
SumRange(values, lo, hi) ==
    IF lo > hi THEN RatZero
    ELSE IF lo = hi THEN values[lo]
    ELSE RatAdd(SumRange(values, lo, (lo + hi) \div 2),
                SumRange(values, (lo + hi) \div 2 + 1, hi))

\* np.mean(y_positions) if y_positions else 0: y_positions holds the y of
\* every player of every frame of the window whose possession group is
\* group; its sum and its length are taken frame by frame
BlockHeight(frames, window, group) ==
    LET kept == SelectSeq(window, LAMBDA i : frames[i].possession = group)
        sums == [k \in 1..Len(kept) |-> SumSeq(PlayerYs(frames[kept[k]]))]
        lens == [k \in 1..Len(kept) |-> Rat(Len(frames[kept[k]].player_data), 1)]
        count == SumRange(lens, 1, Len(kept))
    IN  IF count = RatZero THEN RatZero
        ELSE RatDiv(SumRange(sums, 1, Len(kept)), count)

\* compactness: the mean width * length of the team in possession over the
\* phases team_id has the ball in that start less than a minute from
\* start_timestamp, 1000.0 if there is none
GiriCompactness(team_id, phases, start_timestamp) ==
    LET near == SelectSeq(phases, LAMBDA ph :
                    /\ ph.team_in_possession_id = team_id
                    /\ Abs(_parse_phase_time(ph.time_start)
                             - TicksToParsed(start_timestamp)) < 60 * TimeScale
                    /\ ph.team_in_possession_width_start > 0
                    /\ ph.team_in_possession_length_start > 0)
    IN  IF near = <<>> THEN Rat(1000, 1)
        ELSE RatDiv(SumSeq([i \in 1..Len(near) |->
                               Rat(near[i].team_in_possession_width_start
                                     * near[i].team_in_possession_length_start, 1)]),
                    Rat(Len(near), 1))

\* _calculate_tactical_metrics(frames, team_id, phases_df, start_timestamp) on
\* a window that is not empty: the side is the possession group of the
\* window's first frame
_calculate_tactical_metrics(frames, window, team_id, phases, start_timestamp) ==
    LET is_home == frames[Head(window)].possession = "home"
        group == IF is_home THEN "home" ELSE "away"
    IN  [block_height |-> BlockHeight(frames, window, group),
         avg_velocity |-> RatZero,
         compactness |-> GiriCompactness(team_id, phases, start_timestamp)]

\* a change that counts a drop as a gain: |post_val - pre_val| / |pre_val|
NormalizedChangeUnsigned(pre_val, post_val) ==
    IF pre_val[1] = 0 THEN RatZero
    ELSE LET diff == RatSub(post_val, pre_val)
         IN  RatDiv(Rat(Abs(diff[1]), diff[2]), Rat(Abs(pre_val[1]), pre_val[2]))

\* "(post_val - pre_val) / abs(pre_val)" if pre_val != 0, else 0.0
NormalizedChange(pre_val, post_val) ==
    IF pre_val[1] = 0 THEN RatZero
    ELSE RatDiv(RatSub(post_val, pre_val), Rat(Abs(pre_val[1]), pre_val[2]))

\* calculate_giri(team_id, goal_timestamp, tracking_frames, phases_df,
\*                window_seconds)
calculate_giri(team_id, goal_timestamp, frames, phases, window_seconds) ==
    LET pre_frames == GiriPreFrames(frames, goal_timestamp, window_seconds)
        post_frames == GiriPostFrames(frames, goal_timestamp, window_seconds)
    IN  IF Len(pre_frames) < MinGiriFrames \/ Len(post_frames) < MinGiriFrames
        THEN None
        ELSE LET pre_metrics == _calculate_tactical_metrics(frames, pre_frames,
                                    team_id, phases,
                                    FloatSub(goal_timestamp, window_seconds))
                 post_metrics == _calculate_tactical_metrics(frames, post_frames,
                                     team_id, phases, goal_timestamp)
                 changes == <<NormalizedChange(pre_metrics.block_height,
                                               post_metrics.block_height),
                              NormalizedChange(pre_metrics.avg_velocity,
                                               post_metrics.avg_velocity),
                              NormalizedChange(pre_metrics.compactness,
                                               post_metrics.compactness)>>
             IN  Value(RatDiv(SumSeq(changes), Rat(Len(changes), 1)))

\* the categories GIRI is evaluated for
GoalCategories == {"goal_scored", "goal_conceded"}

\* a handler that evaluates GIRI for events of every category
EventGiriAnyCategory(event, frames, phases, calculator, window_seconds) ==
    IF frames = <<>> \/ phases = <<>> \/ ~calculator THEN None
    ELSE IF event.team_id.kind # "int" THEN None
    ELSE calculate_giri(event.team_id.v, event.timestamp, frames, phases,
                        window_seconds)

\* event_result['GIRI'] as _process_match leaves it for one event: None unless
\* the event is a goal, there are tracking frames and phases and a metrics
\* calculator, and calculate_giri returns a value; int(team_id) raises on a
\* missing team id, and the handler turns that into None
EventGiri(event, frames, phases, calculator, window_seconds) ==
    IF event.event_type \notin GoalCategories THEN None
    ELSE IF frames = <<>> \/ phases = <<>> \/ ~calculator THEN None
    ELSE IF event.team_id.kind # "int" THEN None
    ELSE calculate_giri(event.team_id.v, event.timestamp, frames, phases,
                        window_seconds)

(***************************************************************************)
(* SpecGiri: _process_match handles an event of a match with tracking and  *)
(* phases                                                                  *)
(***************************************************************************)
\* frames of a match: both players at y = 30 or at y = 33, the home side or
\* the away side on the ball
GiriFrameShapes ==
    { [period |-> 1, possession |-> "home",
       player_data |-> <<Player(7, 0, 30), Player(9, 3, 30)>>],
      [period |-> 1, possession |-> "home",
       player_data |-> <<Player(7, 0, 33), Player(9, 3, 33)>>],
      [period |-> 1, possession |-> "away",
       player_data |-> <<Player(7, 0, 33), Player(9, 3, 33)>>] }

\* the phases a table may hold: team 10 or team 20 in possession, starting
\* 1 s or 10 s into the match, the team in possession 30 m x 30 m or
\* 25 m x 40 m
GiriPhase(in_id, out_id, time_start, width, length) ==
    [team_in_possession_id |-> in_id, team_out_of_possession_id |-> out_id,
     time_start |-> StrCell(time_start),
     team_out_of_possession_width_start |-> 20,
     team_out_of_possession_length_start |-> 10,
     team_in_possession_width_start |-> width,
     team_in_possession_length_start |-> length]

GiriPhaseShapes ==
    { GiriPhase(10, 20, <<"0", ":", "0", "1">>, 25, 40),
      GiriPhase(10, 20, <<"0", ":", "1", "0">>, 30, 30),
      GiriPhase(20, 10, <<"0", ":", "1", "0">>, 30, 30) }

\* the critical events of the match: a goal or a failed pass of team 10, of
\* team 20 or of no known team, 9 s, 10 s or 11 s into the match; with each,
\* the system's time_window_seconds: the short window, 120 s
GiriEvents ==
    [event_type : {"goal_scored", "goal_conceded", "failed_pass_offside"},
     team_id : {IntCell(10), IntCell(20), NaNCell},
     timestamp : {9 * TicksPerSecond, 10 * TicksPerSecond, 11 * TicksPerSecond},
     window_seconds : {120 * TicksPerSecond}]

\* a system just constructed or one whose process_all_matches has created the
\* metrics calculator
InitGiri ==
    /\ WeightsIdle
    /\ ParseIdle
    /\ DetectorIdle
    /\ BaselineIdle
    /\ CrtIdle
    /\ TsiIdle
    /\ GiriIdle
    /\ metrics_calculator \in BOOLEAN
    /\ orch = NotCalled
    /\ evaluations = {}
    /\ MatchIdle

\* The tracking provider supplies the match's list of 2 * MinGiriFrames
\* frames: the first k of one shape, the others of another.
LoadGiriTracking ==
    /\ ~giri_result.returned
    /\ tracking_frames = <<>>
    /\ \E a \in GiriFrameShapes, b \in GiriFrameShapes, k \in 1..(2 * MinGiriFrames) :
          tracking_frames' = Tracking(2 * MinGiriFrames,
                                 [i \in 1..(2 * MinGiriFrames) |->
                                     IF i <= k THEN a ELSE b])
    /\ UNCHANGED <<crt_args, crt_result, crt_locals, tsi_vars, giri_vars, orch_vars,
                   weights_vars, parse_vars, detector_vars, baseline_vars, match_vars>>

\* The next phase of play is appended to the match's table.
AddGiriPhase ==
    /\ ~giri_result.returned
    /\ Len(phases_df) < MaxPhases
    /\ \E ph \in GiriPhaseShapes :
          /\ phases_df # <<>> =>
                 _parse_phase_time(phases_df[Len(phases_df)].time_start)
                     <= _parse_phase_time(ph.time_start)
          /\ phases_df' = Append(phases_df, ph)
    /\ UNCHANGED <<tsi_args, tsi_result, giri_vars, orch_vars, crt_vars, weights_vars,
                   parse_vars, detector_vars, baseline_vars, match_vars>>

\* _process_match reaches the GIRI branch for one critical event.
ProcessEventGiri ==
    /\ ~giri_result.returned
    /\ \E event \in GiriEvents :
          /\ giri_event' = event
          /\ giri_result' = EventGiri(event, tracking_frames, phases_df,
                                      metrics_calculator, event.window_seconds)
    /\ UNCHANGED <<orch_vars, tsi_vars, crt_vars, weights_vars, parse_vars,
                   detector_vars, baseline_vars, match_vars>>

NextGiri == LoadGiriTracking \/ AddGiriPhase \/ ProcessEventGiri

SpecGiri == InitGiri /\ [][NextGiri]_vars

(***************************************************************************)
(* SpecOrch: R3ACTSystem.process_all_matches, step by step                 *)
(***************************************************************************)
\* match_ids, in the order of all_matches_data
match_ids == <<"m1", "m2">>

\* the matches before match_ids[k]
Before(k) == { match_ids[j] : j \in 1..(k - 1) }

\* the critical events of each match (player_id 0: the event has no actor)
critical_events(m) ==
    IF m = "m1"
    THEN <<[event_id |-> 1, event_type |-> "goal_scored", player_id |-> 7],
           [event_id |-> 2, event_type |-> "failed_pass_offside", player_id |-> 0]>>
    ELSE <<[event_id |-> 3, event_type |-> "goal_conceded", player_id |-> 9]>>

\* the match has phases of play
HasPhases(m) == m = "m1"

\* a process_all_matches that never builds the baselines
AfterTrackingSkipBaselines(load_tracking, loaded) == "metrics"

\* the step after the tracking step: the two baseline passes if tracking was
\* asked for and tracking_data_dict has a key, else the creation of the
\* metrics calculator
AfterTracking(load_tracking, loaded) ==
    IF load_tracking /\ loaded # {} THEN "pass1" ELSE "metrics"

\* the metrics _process_match evaluates for one event
MetricsStarted(m, event, has_frames, calculator) ==
    { metric \in {"CRT", "TSI", "GIRI"} :
        /\ has_frames
        /\ calculator
        /\ metric = "CRT" => event.player_id # 0
        /\ metric = "TSI" => HasPhases(m)
        /\ metric = "GIRI" => (event.event_type \in GoalCategories /\ HasPhases(m)) }

\* the evaluations _process_match starts for match m, each with the number
\* of baseline passes that had returned in this call when it started
EvaluationsOf(m, has_frames, calculator, call, passes) ==
    { [call |-> call, match_id |-> m,
       event_id |-> critical_events(m)[q[1]].event_id,
       metric |-> q[2], passes |-> passes] :
        q \in { r \in (1..Len(critical_events(m))) \X {"CRT", "TSI", "GIRI"} :
                  r[2] \in MetricsStarted(m, critical_events(m)[r[1]],
                                          has_frames, calculator) } }

InitOrch ==
    /\ WeightsIdle
    /\ ParseIdle
    /\ DetectorIdle
    /\ BaselineIdle
    /\ CrtIdle
    /\ TsiIdle
    /\ GiriIdle
    /\ OrchIdle
    /\ MatchIdle

\* process_all_matches(load_tracking) is called: all_matches_data is loaded
\* and tracking_data_dict is empty.
CallProcessAllMatches ==
    /\ orch.pc = "idle"
    /\ orch.calls < MaxRuns
    /\ \E load_tracking \in BOOLEAN :
          orch' = [orch EXCEPT !.pc = "tracking", !.load_tracking = load_tracking,
                               !.loaded = {}, !.with_frames = {}, !.passes = 0,
                               !.processed = {}, !.calls = @ + 1]
    /\ UNCHANGED <<metrics_calculator, evaluations, giri_vars, tsi_vars, crt_vars,
                   weights_vars, parse_vars, detector_vars, baseline_vars, match_vars>>

\* The tracking of the next match is loaded: frames, or an empty list (no
\* frame, or an error while loading).
LoadMatchTracking ==
    /\ orch.pc = "tracking"
    /\ orch.load_tracking
    /\ \E k \in 1..Len(match_ids), has_frames \in BOOLEAN :
          /\ orch.loaded = Before(k)
          /\ orch' = [orch EXCEPT !.loaded = @ \cup {match_ids[k]},
                                  !.with_frames = IF has_frames
                                                  THEN @ \cup {match_ids[k]} ELSE @]
    /\ UNCHANGED <<metrics_calculator, evaluations, giri_vars, tsi_vars, crt_vars,
                   weights_vars, parse_vars, detector_vars, baseline_vars, match_vars>>

\* The tracking step is over.
EndTracking ==
    /\ orch.pc = "tracking"
    /\ orch.load_tracking => orch.loaded = Before(Len(match_ids) + 1)
    /\ orch' = [orch EXCEPT !.pc = AfterTracking(orch.load_tracking, orch.loaded)]
    /\ UNCHANGED <<metrics_calculator, evaluations, giri_vars, tsi_vars, crt_vars,
                   weights_vars, parse_vars, detector_vars, baseline_vars, match_vars>>

\* calculate_baselines returns.
FirstPass ==
    /\ orch.pc = "pass1"
    /\ orch' = [orch EXCEPT !.pc = "pass2", !.passes = 1]
    /\ UNCHANGED <<metrics_calculator, evaluations, giri_vars, tsi_vars, crt_vars,
                   weights_vars, parse_vars, detector_vars, baseline_vars, match_vars>>

\* calculate_velocity_baselines returns.
SecondPass ==
    /\ orch.pc = "pass2"
    /\ orch' = [orch EXCEPT !.pc = "metrics", !.passes = 2, !.built = TRUE]
    /\ UNCHANGED <<metrics_calculator, evaluations, giri_vars, tsi_vars, crt_vars,
                   weights_vars, parse_vars, detector_vars, baseline_vars, match_vars>>

\* self.metrics_calculator = MetricsCalculator(self.baseline_calculator)
CreateMetricsCalculator ==
    /\ orch.pc = "metrics"
    /\ metrics_calculator' = TRUE
    /\ orch' = [orch EXCEPT !.pc = "matches"]
    /\ UNCHANGED <<evaluations, giri_vars, tsi_vars, crt_vars,
                   weights_vars, parse_vars, detector_vars, baseline_vars, match_vars>>

\* _process_match(match_id, all_matches_data[match_id],
\*                tracking_data_dict.get(match_id, [])) for the next match
ProcessMatch ==
    /\ orch.pc = "matches"
    /\ \E k \in 1..Len(match_ids) :
          /\ orch.processed = Before(k)
          /\ evaluations' = evaluations \cup
                 EvaluationsOf(match_ids[k], match_ids[k] \in orch.with_frames,
                               metrics_calculator, orch.calls, orch.passes)
          /\ orch' = [orch EXCEPT !.processed = @ \cup {match_ids[k]}]
    /\ UNCHANGED <<metrics_calculator, giri_vars, tsi_vars, crt_vars,
                   weights_vars, parse_vars, detector_vars, baseline_vars, match_vars>>

\* process_all_matches returns the results.
ReturnResults ==
    /\ orch.pc = "matches"
    /\ orch.processed = Before(Len(match_ids) + 1)
    /\ orch' = [orch EXCEPT !.pc = "idle"]
    /\ UNCHANGED <<metrics_calculator, evaluations, giri_vars, tsi_vars, crt_vars,
                   weights_vars, parse_vars, detector_vars, baseline_vars, match_vars>>

NextOrch ==
    \/ CallProcessAllMatches
    \/ LoadMatchTracking
    \/ EndTracking
    \/ FirstPass
    \/ SecondPass
    \/ CreateMetricsCalculator
    \/ ProcessMatch
    \/ ReturnResults

SpecOrch == InitOrch /\ [][NextOrch]_vars

(***************************************************************************)
(* SpecMatch: R3ACTSystem._process_match, event by event                   *)
(***************************************************************************)
\* the most critical events one match has in the model
MaxEvents == 2

\* self.time_window_seconds of the short window, in ticks
time_window_seconds == 120 * TicksPerSecond

\* bool(event.get('player_id')): 0 is false, an id and NaN are true
Truthy(cell) == cell.kind # "int" \/ cell.v # 0

\* the arguments _process_match hands to calculate_crt for an event
CrtArgsOf(event, window_seconds) ==
    [player_id |-> event.player_id.v, error_timestamp |-> event.timestamp,
     error_frame |-> event.frame, window_seconds |-> window_seconds]

\* calculate_crt is called for the event: there are frames, an actor and a
\* calculator, and int(player_id) does not raise
CrtCalled(event, frames, calculator) ==
    /\ frames # <<>>
    /\ Truthy(event.player_id)
    /\ calculator
    /\ event.player_id.kind = "int"

\* event_result['CRT'] as _process_match leaves it for one event: None unless
\* calculate_crt is called and returns a value
EventCrt(event, frames, calculator, pb, window_seconds, dist) ==
    IF ~CrtCalled(event, frames, calculator) THEN None
    ELSE calculate_crt(pb, CrtArgsOf(event, window_seconds), frames, dist)

\* event_result['TSI'] as _process_match leaves it for one event: None unless
\* there are frames, phases and a calculator, int(player_id) and int(team_id)
\* do not raise, and calculate_tsi returns
EventTsi(event, frames, phases, calculator, window_seconds) ==
    IF frames = <<>> \/ phases = <<>> \/ ~calculator THEN None
    ELSE IF event.player_id.kind # "int" \/ event.team_id.kind # "int" THEN None
    ELSE LET out == calculate_tsi([player_id |-> event.player_id.v,
                                   team_id |-> event.team_id.v,
                                   error_timestamp |-> event.timestamp,
                                   error_frame |-> event.frame,
                                   window_seconds |-> window_seconds],
                                  frames, phases)
         IN  IF out.raised THEN None ELSE Value(out.tsi)

\* A mutant of the loop body: once a metric of the event is None the metrics
\* after it are not evaluated.
EventResultStopAtNull(event, frames, phases, calculator, pb, window_seconds, dist) ==
    LET crt == EventCrt(event, frames, calculator, pb, window_seconds, dist)
        tsi == IF crt.is_none THEN None
               ELSE EventTsi(event, frames, phases, calculator, window_seconds)
    IN  [event_id |-> event.event_id, event_type |-> event.event_type,
         CRT |-> crt, TSI |-> tsi,
         GIRI |-> IF tsi.is_none THEN None
                  ELSE EventGiri(event, frames, phases, calculator, window_seconds)]

\* event_result as the loop body appends it: the three metrics start as None
\* and each is evaluated in its own guarded block
EventResult(event, frames, phases, calculator, pb, window_seconds, dist) ==
    [event_id |-> event.event_id, event_type |-> event.event_type,
     CRT |-> EventCrt(event, frames, calculator, pb, window_seconds, dist),
     TSI |-> EventTsi(event, frames, phases, calculator, window_seconds),
     GIRI |-> EventGiri(event, frames, phases, calculator, window_seconds)]

\* A mutant of the lookup: a player without an entry is given an empty one
\* (setdefault in place of get).
BaselinesAfterSetdefault(pb, player_id) ==
    IF player_id \in DOMAIN pb THEN pb ELSE DictUpdate(pb, player_id :> <<>>)

\* player_baselines after get_player_baseline(player_id): dict.get adds no key
BaselinesAfterGet(pb, player_id) == pb

\* player_baselines after calculate_crt: the only access is the lookup, made
\* once the event frame is found and the window has enough frames
BaselinesAfterCrt(pb, args, frames) ==
    LET idx == ErrorFrameIdx(frames, args.error_timestamp, args.error_frame)
    IN  IF idx = 0 THEN pb
        ELSE IF Len(PostErrorIdx(frames, frames[idx].period, args.error_timestamp,
                                 args.window_seconds)) < MinWindowFrames
        THEN pb
        ELSE BaselinesAfterGet(pb, args.player_id)

\* The baselines the calculator holds: player 7 stood at (0, 30) in the
\* corpus; player 9 has no entry.
MatchBaselines ==
    [pid \in {7} |->
        [x_mean |-> RatZero, y_mean |-> Rat(30, 1), dist_to_center_mean |-> Rat(30, 1),
         velocity_mean |-> RatZero, velocity_std |-> RatZero,
         distance_per_frame_mean |-> RatZero]]

MatchTeamBaselines == [t \in {10} |-> [possession_rate |-> 2 * MinGiriFrames]]

\* the shape of the frames before the event: the home side on the ball, both
\* players at y = 30
ShapeBeforeEvent ==
    [period |-> 1, possession |-> "home",
     player_data |-> <<Player(7, 0, 30), Player(9, 3, 30)>>]

\* the shape the frames may have after the event: the away side on the
\* ball, both players at y = 33
ShapeAfterEvent ==
    [period |-> 1, possession |-> "away",
     player_data |-> <<Player(7, 0, 33), Player(9, 3, 33)>>]

\* the tracking of the match: none, or 2 * MinGiriFrames frames, those of
\* the second half of either shape
MatchTrackings ==
    {<<>>} \cup
    { Tracking(2 * MinGiriFrames,
               [i \in 1..(2 * MinGiriFrames) |->
                   IF i <= MinGiriFrames THEN ShapeBeforeEvent ELSE b]) :
        b \in {ShapeBeforeEvent, ShapeAfterEvent} }

\* the phases table of the match: empty, or one phase
MatchPhases == {<<>>} \cup { <<ph>> : ph \in GiriPhaseShapes }

\* what a critical event may be, 10 s into the match at frame 10: a goal or a
\* failed pass, with an actor (7, or 9 who has no baseline), without one (0),
\* or with a missing player id or team id
CriticalEventShapes ==
    { [event_type |-> q[1], player_id |-> q[2], team_id |-> q[3],
       timestamp |-> 10 * TicksPerSecond, frame |-> 10] :
        q \in { <<"goal_scored", IntCell(7), IntCell(10)>>,
                <<"goal_scored", NaNCell, IntCell(10)>>,
                <<"goal_conceded", IntCell(7), NaNCell>>,
                <<"failed_pass_offside", IntCell(9), IntCell(20)>>,
                <<"failed_pass_offside", IntCell(0), IntCell(10)>> } }

\* the tables of at most n critical events, event ids from 1
RECURSIVE CriticalTables(_)
CriticalTables(n) ==
    IF n = 0 THEN {<<>>}
    ELSE LET shorter == CriticalTables(n - 1)
         IN  shorter \cup
             { Append(q[1], [event_id |-> n, event_type |-> q[2].event_type,
                             player_id |-> q[2].player_id, team_id |-> q[2].team_id,
                             timestamp |-> q[2].timestamp, frame |-> q[2].frame]) :
                 q \in { r \in shorter \X CriticalEventShapes : Len(r[1]) = n - 1 } }

\* a system whose baselines are built, before or after process_all_matches
\* has created the metrics calculator
InitMatch ==
    /\ WeightsIdle
    /\ ParseIdle
    /\ DetectorIdle
    /\ tracking_data_dict = [m \in {"m1", "m2"} |-> <<>>]
    /\ player_baselines = MatchBaselines
    /\ team_baselines = MatchTeamBaselines
    /\ baseline_pc = "done"
    /\ runs = 1
    /\ first_run = MatchBaselines
    /\ CrtIdle
    /\ TsiIdle
    /\ GiriIdle
    /\ metrics_calculator \in BOOLEAN
    /\ orch = NotCalled
    /\ evaluations = {}
    /\ MatchIdle

\* _process_match(match_id, match_data, tracking_frames) is called and
\* detects the critical events; without any it returns the empty list.
CallProcessMatch ==
    /\ match_pc = "idle"
    /\ \E frames \in MatchTrackings, phases \in MatchPhases,
          events \in CriticalTables(MaxEvents) :
          /\ tracking_frames' = frames
          /\ phases_df' = phases
          /\ critical_events_df' = events
          /\ match_pc' = IF events = <<>> THEN "returned" ELSE "loop"
    /\ results' = <<>>
    /\ UNCHANGED <<crt_args, crt_result, crt_locals, tsi_args, tsi_result,
                   raising, results_without, weights_vars, parse_vars,
                   detector_vars, baseline_vars, giri_vars, orch_vars>>

\* One pass of the loop over the critical events: the record of the next
\* event is built and appended; after the last one the list is returned.
ProcessEvent ==
    /\ match_pc = "loop"
    /\ LET event == critical_events_df[Len(results) + 1]
           args == CrtArgsOf(event, time_window_seconds)
           called == CrtCalled(event, tracking_frames, metrics_calculator)
       IN  /\ \E dist \in [IF called
                           THEN OffBaselineVectors(player_baselines, args,
                                                   tracking_frames)
                           ELSE {} -> DistLevels] :
                  results' = Append(results,
                                 EventResult(event, tracking_frames, phases_df,
                                             metrics_calculator, player_baselines,
                                             time_window_seconds, dist))
           /\ player_baselines' =
                  IF called
                  THEN BaselinesAfterCrt(player_baselines, args, tracking_frames)
                  ELSE player_baselines
    /\ match_pc' = IF Len(results') = Len(critical_events_df)
                   THEN "returned" ELSE "loop"
    /\ UNCHANGED <<critical_events_df, raising, results_without,
                   tracking_data_dict, team_baselines, baseline_pc, runs,
                   first_run, crt_vars, tsi_vars, weights_vars, parse_vars,
                   detector_vars, giri_vars, orch_vars>>

NextMatch == CallProcessMatch \/ ProcessEvent

SpecMatch == InitMatch /\ [][NextMatch]_vars

(***************************************************************************)
(* SpecCorpus: process_all_matches over a corpus of two matches, of which  *)
(* some make _process_match raise, next to the same run on the corpus      *)
(* without those matches                                                   *)
(***************************************************************************)
\* the corpus frames that hold player 7
ActorCorpusShapes ==
    { shape \in CorpusFrameShapes : FindPlayer(shape.player_data, 7) # 0 }

\* n frames of one shape, one a second, ids from 1, timestamps in seconds
CorpusMatch(n, shape) ==
    [i \in 1..n |-> [frame |-> i, timestamp |-> i - 1, period |-> 1,
                     player_data |-> shape.player_data,
                     possession |-> shape.possession]]

\* the same frames with their timestamps in ticks
InTicks(frames) ==
    [i \in 1..Len(frames) |->
        [frames[i] EXCEPT !.timestamp = @ * TicksPerSecond]]

\* tracking_data_dict of the corpus without the matches of gone
Without(tracking, gone) ==
    [m \in DOMAIN tracking |-> IF m \in gone THEN <<>> ELSE tracking[m]]

\* player_baselines after both baseline passes of a new system over a corpus
BaselinesOf(tracking) ==
    calculate_velocity_baselines(
        calculate_baselines(<<>>, <<>>, tracking).player_baselines, tracking)

\* the critical event of each match: a failed pass of player 7 at the first
\* frame
CorpusEvent ==
    [event_id |-> 1, event_type |-> "failed_pass_offside",
     player_id |-> IntCell(7), team_id |-> IntCell(10), timestamp |-> 0, frame |-> 1]

\* the record _process_match returns for match m: of the three metrics only
\* CRT reads the baselines, and only it is kept here
MatchRecord(m, tracking, pb, dist) ==
    [match_id |-> m, event_id |-> CorpusEvent.event_id,
     CRT |-> EventCrt(CorpusEvent, InTicks(tracking[m]), TRUE, pb,
                      time_window_seconds, dist)]

\* the domain of the dist input of that evaluation
RecordVectors(m, tracking, pb) ==
    IF CrtCalled(CorpusEvent, InTicks(tracking[m]), TRUE)
    THEN OffBaselineVectors(pb, CrtArgsOf(CorpusEvent, time_window_seconds),
                            InTicks(tracking[m]))
    ELSE {}

\* The corpus is loaded: match m1 has MaxFrames frames with player 7, match
\* m2 at most MaxCorpusFrames frames; the data of the matches of raising makes
\* _process_match raise.
LoadCorpus ==
    /\ baseline_pc = "load"
    /\ runs = 0
    /\ CorpusSize = 0
    /\ orch.processed = {}
    /\ \E a \in ActorCorpusShapes, b \in CorpusFrameShapes,
          k \in 0..MaxCorpusFrames, r \in SUBSET {"m1", "m2"} :
          /\ tracking_data_dict' =
                 [m \in {"m1", "m2"} |->
                     IF m = "m1" THEN CorpusMatch(MaxFrames, a)
                     ELSE CorpusMatch(k, b)]
          /\ raising' = r
    /\ UNCHANGED <<player_baselines, team_baselines, baseline_pc, runs, first_run,
                   critical_events_df, results, match_pc, results_without,
                   weights_vars, parse_vars, detector_vars, crt_vars, tsi_vars,
                   giri_vars, orch_vars>>

\* One pass of the loop over match_ids, with the baselines built: a match
\* that raises is skipped, the records of another are added to all_results.
ProcessCorpusMatch ==
    /\ baseline_pc = "done"
    /\ \E k \in 1..Len(match_ids) :
          LET m == match_ids[k]
              alone == BaselinesOf(Without(tracking_data_dict, raising))
              same == BaselineVector(get_player_baseline(player_baselines, 7))
                          = BaselineVector(get_player_baseline(alone, 7))
          IN  /\ orch.processed = Before(k)
              /\ orch' = [orch EXCEPT !.processed = @ \cup {m}]
              /\ IF m \in raising
                 THEN UNCHANGED <<results, results_without>>
                 ELSE \E dist \in [RecordVectors(m, tracking_data_dict,
                                                 player_baselines) -> DistLevels],
                         dist_without \in [RecordVectors(m, tracking_data_dict,
                                                         alone) -> DistLevels] :
                         /\ same => dist_without = dist
                         /\ results' =
                                Append(results,
                                       MatchRecord(m, tracking_data_dict,
                                                   player_baselines, dist))
                         /\ results_without' =
                                Append(results_without,
                                       MatchRecord(m, tracking_data_dict, alone,
                                                   dist_without))
    /\ UNCHANGED <<metrics_calculator, evaluations, critical_events_df, match_pc,
                   raising, weights_vars, parse_vars, detector_vars,
                   baseline_vars, crt_vars, tsi_vars, giri_vars>>

NextCorpus ==
    \/ LoadCorpus
    \/ CalculateBaselines
    \/ CalculateVelocityBaselines
    \/ ProcessCorpusMatch

SpecCorpus == InitBaseline /\ [][NextCorpus]_vars




(***************************************************************************)
(* Claims about the Event Classifier                                       *)
(***************************************************************************)
\* the dictionary __init__ keeps before normalizing it
RawWeights == 
    IF weights_arg.kind = "dict" /\ DOMAIN weights_arg.d # {}
    THEN weights_arg.d ELSE default_weights

WeightSum == SumValues(event_weights, DOMAIN event_weights)

\* C1 as stated: for every event-weight dictionary passed to the detector (and
\* for the default table), event_weights after construction sum to 1.
C1_AsStated == constructed => WeightSum = RatOne

\* C1, amended: for every event-weight dictionary whose values sum to a positive
\* total (and for the default table, used when None or an empty dictionary is
\* passed), event_weights after construction sum to 1.
C1_WeightsSumToOne ==
    constructed =>
        (RatPos(SumValues(RawWeights, DOMAIN RawWeights)) => WeightSum = RatOne)

\* C1 witness: a constructed detector whose dictionary has several unequal
\* weights of positive total.
C1_Witness ==
    /\ constructed
    /\ weights_arg.kind = "dict"
    /\ Cardinality(DOMAIN weights_arg.d) >= 2
    /\ \E j, k \in DOMAIN weights_arg.d : weights_arg.d[j] # weights_arg.d[k]
    /\ RatPos(SumValues(RawWeights, DOMAIN RawWeights))
    /\ event_weights # weights_arg.d

\* C2: the rows detect_critical_events returns are in ascending timestamp order:
\* of any two consecutive rows the earlier one's timestamp is <= the later one's.
C2_OrderedByTimestamp ==
    detected =>
        \A i \in 1..(Len(df_critical) - 1) :
            df_critical[i].timestamp <= df_critical[i + 1].timestamp

\* C2 witness: the output holds events of two detectors, and the sort moved a
\* later table row in front of an earlier one.
C2_Witness ==
    /\ detected
    /\ \E i \in 1..(Len(df_critical) - 1) :
          /\ df_critical[i].timestamp < df_critical[i + 1].timestamp
          /\ df_critical[i].row > df_critical[i + 1].row
          /\ df_critical[i].event_type \in {"goal_scored", "goal_conceded"}
          /\ df_critical[i + 1].event_type \notin {"goal_scored", "goal_conceded"}

GoalEventsOfRow(idx) == { k \in 1..Len(goals) : goals[k].row = idx }

MatchesBothGoalPaths(row) == IsGoalAfter(row) /\ IsGoalLead(row)

\* C3: a row that matches both goal signal paths yields exactly one goal event,
\* and no two events returned by _detect_goals share an event_id.
C3_GoalsDeduplicated ==
    detected =>
        /\ \A i \in 1..Len(events_df) :
              MatchesBothGoalPaths(events_df[i]) =>
                  Cardinality(GoalEventsOfRow(events_df[i].idx)) = 1
        /\ \A j, k \in 1..Len(goals) :
              j # k => goals[j].event_id # goals[k].event_id

\* C3 witness: a table with a row matching both paths, next to another goal row.
C3_Witness ==
    /\ detected
    /\ \E i \in 1..Len(events_df) : MatchesBothGoalPaths(events_df[i])
    /\ Len(goals) >= 2

GoalTypesOfRow(idx) == { goals[k].event_type : k \in GoalEventsOfRow(idx) }

\* C4 as stated: every row whose game_interruption_after is goal_for, or whose
\* lead_to_goal flag is true, is classified goal_scored; a row is classified
\* goal_conceded only when game_interruption_after is goal_against.
C4_AsStated ==
    detected =>
        \A i \in 1..Len(events_df) :
            LET row == events_df[i] IN
            /\ (row.game_interruption_after = "goal_for" \/ row.lead_to_goal)
                   => GoalTypesOfRow(row.idx) = {"goal_scored"}
            /\ "goal_conceded" \in GoalTypesOfRow(row.idx)
                   => row.game_interruption_after = "goal_against"

\* C4, amended: every row whose game_interruption_after is goal_for, or whose
\* lead_to_goal flag is true while game_interruption_after is not goal_against,
\* is classified goal_scored; a row is classified goal_conceded exactly when
\* game_interruption_after is goal_against, whatever its lead_to_goal flag.
C4_GoalClassification ==
    detected =>
        \A i \in 1..Len(events_df) :
            LET row == events_df[i] IN
            /\ (\/ row.game_interruption_after = "goal_for"
                \/ (row.lead_to_goal /\ row.game_interruption_after # "goal_against"))
                   => GoalTypesOfRow(row.idx) = {"goal_scored"}
            /\ row.game_interruption_after = "goal_against"
                   <=> GoalTypesOfRow(row.idx) = {"goal_conceded"}

\* C4 witness: a classified table with a goal_against row whose lead_to_goal flag
\* is set, and a row that is a goal only through lead_to_goal.
C4_Witness ==
    /\ detected
    /\ \E i \in 1..Len(events_df) :
          /\ events_df[i].game_interruption_after = "goal_against"
          /\ events_df[i].lead_to_goal
    /\ \E i \in 1..Len(events_df) :
          /\ events_df[i].game_interruption_after = "none"
          /\ events_df[i].lead_to_goal
          /\ GoalTypesOfRow(events_df[i].idx) = {"goal_scored"}

\* C5 as stated: every event detect_critical_events returns has an event_type
\* among the twelve keys of the default weight table.
C5_AsStated ==
    detected =>
        \A i \in 1..Len(df_critical) :
            df_critical[i].event_type \in DOMAIN default_weights

\* "MM:SS.s": minutes, one colon, seconds; or a plain number
WellFormedTime(t) ==
    /\ t.kind = "str"
    /\ \/ /\ Count(t.s, ":") = 1
          /\ IntOk(Split(t.s, ":")[1])
          /\ FloatOk(Split(t.s, ":")[2])
       \/ /\ Count(t.s, ":") = 0
          /\ FloatOk(t.s)

\* C6 as stated: _parse_time never raises, and returns 0.0 for every time_start
\* that is not a well-formed "MM:SS.s" or numeric string.
C6_AsStated ==
    parse_result.returned =>
        (~WellFormedTime(time_str) => parse_result.value = 0)

(***************************************************************************)
(* Claims about the Baseline Estimator                                     *)
(***************************************************************************)
\* the player has an entry in some frame of the corpus
AppearsInCorpus(pid) ==
    \E m \in DOMAIN tracking_data_dict :
        \E i \in 1..Len(tracking_data_dict[m]) :
            \E j \in 1..Len(tracking_data_dict[m][i].player_data) :
                tracking_data_dict[m][i].player_data[j].player_id = pid

\* C7: after both passes over a corpus, player_baselines has an entry for a
\* player only if the player appears in a tracking frame of the corpus; for a
\* player absent from it get_player_baseline returns the empty mapping.
C7_NoEntryForAbsentPlayer ==
    baseline_pc = "done" =>
        /\ \A pid \in DOMAIN player_baselines : AppearsInCorpus(pid)
        /\ \A pid \in PlayerIds :
              ~AppearsInCorpus(pid) =>
                  get_player_baseline(player_baselines, pid) = <<>>

\* C7 witness: both passes have run over a corpus that tracks one player, who
\* has an entry, and lacks another.
C7_Witness ==
    /\ baseline_pc = "done"
    /\ \E pid \in PlayerIds : AppearsInCorpus(pid) /\ pid \in DOMAIN player_baselines
    /\ \E pid \in PlayerIds : ~AppearsInCorpus(pid)

\* C8: after the Baseline Estimator has run again (both passes) over the same
\* corpus, player_baselines equals what the first run left: the same player ids
\* and the same value of every field.
C8_RerunIsIdempotent ==
    (baseline_pc = "done" /\ runs >= 2) => player_baselines = first_run

\* C8 witness: a second run has ended over a corpus in which a player has a
\* non-zero mean position and a non-zero mean speed.
C8_Witness ==
    /\ baseline_pc = "done"
    /\ runs >= 2
    /\ \E pid \in DOMAIN player_baselines :
          /\ DOMAIN player_baselines[pid] =
                 {"x_mean", "y_mean", "dist_to_center_mean", "velocity_mean",
                  "velocity_std", "distance_per_frame_mean"}
          /\ RatPos(player_baselines[pid]["x_mean"])
          /\ RatPos(player_baselines[pid]["velocity_mean"])

(***************************************************************************)
(* Claims about the Recovery Detector: C9, C10                             *)
(***************************************************************************)
\* the frame the call takes for the event's: the first one with its frame id or
\* within half a second of its timestamp (0: there is none)
EventFrame ==
    LET hits == { i \in 1..Len(tracking_frames) :
                    \/ tracking_frames[i].frame = crt_args.error_frame
                    \/ /\ tracking_frames[i].timestamp - crt_args.error_timestamp < HalfSecond
                       /\ crt_args.error_timestamp - tracking_frames[i].timestamp < HalfSecond }
    IN  IF hits = {} THEN 0 ELSE CHOOSE i \in hits : \A j \in hits : i <= j

\* the frames of the event's period with timestamp in [event_ts, event_ts + W]
WindowFrames ==
    LET at == EventFrame
    IN  IF at = 0 THEN {}
        ELSE LET period == tracking_frames[at].period
             IN  { i \in 1..Len(tracking_frames) :
                     /\ tracking_frames[i].period = period
                     /\ crt_args.error_timestamp <= tracking_frames[i].timestamp
                     /\ tracking_frames[i].timestamp <=
                            crt_args.error_timestamp + crt_args.window_seconds }

\* those of them in which the actor is present
ActorFrames ==
    { i \in WindowFrames :
        \E j \in 1..Len(tracking_frames[i].player_data) :
            tracking_frames[i].player_data[j].player_id = crt_args.player_id }

\* C9: if the actor's player id has no entry in the baseline map, calculate_crt
\* returns None, whatever the tracking holds.
C9_NoBaselineGivesNone ==
    (crt_result.returned /\ crt_args.player_id \notin DOMAIN player_baselines)
        => crt_result.is_none

\* C9 witness: a call for an actor without a baseline entry has returned None
\* although the window holds at least 10 frames and the actor is in at least 5
\* of them.
C9_Witness ==
    /\ crt_result.returned
    /\ crt_args.player_id \notin DOMAIN player_baselines
    /\ crt_result.is_none
    /\ Cardinality(WindowFrames) >= MinWindowFrames
    /\ Cardinality(ActorFrames) >= MinPlayerSamples

\* C10: calculate_crt returns a value other than None only if at least 10
\* tracking frames of the event's period have a timestamp in
\* [event_ts, event_ts + W] and the actor is present in at least 5 of them;
\* with fewer than 10 window frames or fewer than 5 actor samples it returns
\* None.
C10_NonNullNeedsSamples ==
    crt_result.returned =>
        LET window == Cardinality(WindowFrames)
            actor == Cardinality(ActorFrames)
        IN  /\ ~crt_result.is_none =>
                  (window >= MinWindowFrames /\ actor >= MinPlayerSamples)
            /\ (window < MinWindowFrames \/ actor < MinPlayerSamples)
                  => crt_result.is_none

\* C10 witness: a call has returned a value with exactly 10 window frames and
\* the actor in exactly 5 of them.
C10_Witness ==
    /\ crt_result.returned
    /\ ~crt_result.is_none
    /\ Cardinality(WindowFrames) = MinWindowFrames
    /\ Cardinality(ActorFrames) = MinPlayerSamples

\* A call for an actor with a baseline has returned None because the actor is
\* in fewer than 5 of at least 10 window frames.
C10_TooFewActorSamples ==
    /\ crt_result.returned
    /\ crt_result.is_none
    /\ crt_args.player_id \in DOMAIN player_baselines
    /\ Cardinality(WindowFrames) >= MinWindowFrames
    /\ Cardinality(ActorFrames) < MinPlayerSamples

(***************************************************************************)
(* Claims about the Recovery Detector: C11, C12, C13                       *)
(***************************************************************************)
\* C11: when the data suffice (event frame found, at least 10 window frames,
\* a baseline, at least 5 actor samples) and the smoothed distance is at least
\* 1.0 at every retained sample, calculate_crt returns the window length W,
\* not None.
C11_NeverRecoveredGivesWindow ==
    (/\ crt_result.returned
     /\ Len(crt_locals.ewma_values) >= MinPlayerSamples
     /\ \A i \in 1..Len(crt_locals.ewma_values) :
           crt_locals.ewma_values[i] >= Threshold)
        => (~crt_result.is_none /\ crt_result.value = crt_args.window_seconds)

\* C11 witness: a call with W = 120 s has returned W after at least 10 samples
\* whose smoothed distance never fell below 1.0.
C11_Witness ==
    /\ crt_result.returned
    /\ ~crt_result.is_none
    /\ crt_args.window_seconds = 120 * TicksPerSecond
    /\ crt_result.value = crt_args.window_seconds
    /\ Len(crt_locals.ewma_values) >= MinWindowFrames
    /\ \A i \in 1..Len(crt_locals.ewma_values) :
          crt_locals.ewma_values[i] >= Threshold

\* C12, as stated: whenever calculate_crt returns a value other than None for
\* window length W, the value lies in [0, W].
C12_AsStated ==
    (crt_result.returned /\ ~crt_result.is_none)
        => (0 <= crt_result.value /\ crt_result.value <= crt_args.window_seconds)

\* the retained samples all have the actor's baseline vector
TrajectoryAtBaseline ==
    /\ crt_args.player_id \in DOMAIN player_baselines
    /\ \A i \in 1..Len(crt_locals.player_metrics) :
          LET m == crt_locals.player_metrics[i]
              b == player_baselines[crt_args.player_id]
          IN  /\ Rat(m.x, 1) = b.x_mean
              /\ Rat(m.y, 1) = b.y_mean
              /\ Rat(m.dist_to_center, 1) = b.dist_to_center_mean
              /\ m.velocity = b.velocity_mean

TsiReturned == tsi_result.returned /\ ~tsi_result.raised

\* the tracking frames of the event's period in [ts - W, ts) and in [ts, ts + W]
TsiPreWindow ==
    { i \in 1..Len(tracking_frames) :
        /\ tracking_frames[i].period = tracking_frames[tsi_args.error_frame + 1].period
        /\ tsi_args.error_timestamp - tsi_args.window_seconds
               <= tracking_frames[i].timestamp
        /\ tracking_frames[i].timestamp < tsi_args.error_timestamp }

TsiPostWindow ==
    { i \in 1..Len(tracking_frames) :
        /\ tracking_frames[i].period = tracking_frames[tsi_args.error_frame + 1].period
        /\ tsi_args.error_timestamp <= tracking_frames[i].timestamp
        /\ tracking_frames[i].timestamp
               <= tsi_args.error_timestamp + tsi_args.window_seconds }

\* the phases of play, of either team, that start in [ts - W, ts) and in
\* [ts, ts + W]
PhasesPreWindow ==
    { i \in 1..Len(phases_df) :
        /\ TicksToParsed(tsi_args.error_timestamp - tsi_args.window_seconds)
               <= _parse_phase_time(phases_df[i].time_start)
        /\ _parse_phase_time(phases_df[i].time_start)
               < TicksToParsed(tsi_args.error_timestamp) }

PhasesPostWindow ==
    { i \in 1..Len(phases_df) :
        /\ TicksToParsed(tsi_args.error_timestamp)
               <= _parse_phase_time(phases_df[i].time_start)
        /\ _parse_phase_time(phases_df[i].time_start)
               <= TicksToParsed(tsi_args.error_timestamp + tsi_args.window_seconds) }

\* C14, as stated: each of the three TSI sub-scores is exactly 0.0 whenever its
\* pre-window or its post-window holds fewer than 5 samples: tracking frames
\* for proximity and possession, phases of play for structure.
C14_AsStated ==
    TsiReturned =>
        /\ (Cardinality(TsiPreWindow) < 5 \/ Cardinality(TsiPostWindow) < 5)
              => /\ tsi_result.proximity_score = RatZero
                 /\ tsi_result.possession_score = RatZero
        /\ (Cardinality(PhasesPreWindow) < 5 \/ Cardinality(PhasesPostWindow) < 5)
              => tsi_result.structure_score = RatZero

\* C15, as stated: the structure sub-score for team T is computed only from
\* phases in which T is out of possession; phases in which T is in possession
\* never contribute.  So with no phase in which T is out of possession the
\* sub-score has nothing to be computed from and is 0.
C15_AsStated ==
    (/\ TsiReturned
     /\ \A i \in 1..Len(phases_df) :
           phases_df[i].team_out_of_possession_id # tsi_args.team_id)
        => tsi_result.structure_score = RatZero

\* the side of a team in the match: 'home' or 'away'
SideOf(team_id) ==
    IF team_id = all_matches_data["m1"].home_team THEN "home" ELSE "away"

\* the share of the frames of a window whose possession group is side
ShareOf(window, side) ==
    Rat(Cardinality({ i \in window : tracking_frames[i].possession = side }),
        Cardinality(window))

\* C16, as stated: the possession sub-score counts, in each window, the frames
\* whose possession group is the side of the actor's team, whichever team holds
\* the ball at the event frame: it is (post - pre) / pre of those shares.
C16_AsStated ==
    (/\ TsiReturned
     /\ Cardinality(TsiPreWindow) >= 5
     /\ Cardinality(TsiPostWindow) >= 5)
        => LET pre == ShareOf(TsiPreWindow, SideOf(tsi_args.team_id))
               post == ShareOf(TsiPostWindow, SideOf(tsi_args.team_id))
           IN  tsi_result.possession_score =
                   IF RatPos(pre) THEN RatDiv(RatSub(post, pre), pre) ELSE RatZero

\* C17, as stated: for every input, the value returned by calculate_tsi lies
\* between -1 and 1.
C17_AsStated ==
    TsiReturned =>
        /\ 0 - tsi_result.tsi[2] <= tsi_result.tsi[1]
        /\ tsi_result.tsi[1] <= tsi_result.tsi[2]

(***************************************************************************)
(* Claims about the Goal Impact Response Index: C18, C19                   *)
(***************************************************************************)
\* the handler has left a GIRI that is not null
GiriNonNull == giri_result.returned /\ ~giri_result.is_none

\* the tracking frames in [ts - W, ts) and in [ts, ts + W], the bounds being
\* the floats the program computes
GiriPreWindow ==
    { i \in 1..Len(tracking_frames) :
        /\ FloatSub(giri_event.timestamp, giri_event.window_seconds)
               <= tracking_frames[i].timestamp
        /\ tracking_frames[i].timestamp < giri_event.timestamp }

GiriPostWindow ==
    { i \in 1..Len(tracking_frames) :
        /\ giri_event.timestamp <= tracking_frames[i].timestamp
        /\ tracking_frames[i].timestamp
               <= FloatAdd(giri_event.timestamp, giri_event.window_seconds) }

\* C18: in every result, GIRI is non-null only if the event's category is
\* goal_scored or goal_conceded and both the pre-window [ts - W, ts) and the
\* post-window [ts, ts + W] hold at least 10 tracking frames; for every other
\* event GIRI is null.
C18_GiriOnlyForGoalsWithFullWindows ==
    GiriNonNull =>
        /\ giri_event.event_type \in {"goal_scored", "goal_conceded"}
        /\ Cardinality(GiriPreWindow) >= 10
        /\ Cardinality(GiriPostWindow) >= 10

\* a goal whose two windows hold exactly 10 frames each has a GIRI
C18_Witness ==
    /\ GiriNonNull
    /\ giri_event.event_type = "goal_conceded"
    /\ Cardinality(GiriPreWindow) = 10
    /\ Cardinality(GiriPostWindow) = 10

\* the metrics of the two windows of the event handled
GiriPreMetrics ==
    _calculate_tactical_metrics(tracking_frames,
        GiriPreFrames(tracking_frames, giri_event.timestamp, giri_event.window_seconds),
        giri_event.team_id.v, phases_df,
        FloatSub(giri_event.timestamp, giri_event.window_seconds))

GiriPostMetrics ==
    _calculate_tactical_metrics(tracking_frames,
        GiriPostFrames(tracking_frames, giri_event.timestamp, giri_event.window_seconds),
        giri_event.team_id.v, phases_df, giri_event.timestamp)

\* the case of the example: block_height 30 before and 33 after, compactness
\* 1000 before and 900 after
GiriExample ==
    /\ GiriNonNull
    /\ GiriPreMetrics.block_height = Rat(30, 1)
    /\ GiriPostMetrics.block_height = Rat(33, 1)
    /\ GiriPreMetrics.compactness = Rat(1000, 1)
    /\ GiriPostMetrics.compactness = Rat(900, 1)

\* C19, as stated: for a goal whose window metrics are block_height 30 before
\* and 33 after and compactness 1000 before and 900 after, the compactness
\* change is +0.10 and calculate_giri returns mean(0.10, 0, 0.10) = 0.0667
\* (to four decimal places).
C19_AsStated ==
    GiriExample =>
        /\ NormalizedChange(GiriPreMetrics.compactness, GiriPostMetrics.compactness)
               = Rat(1, 10)
        /\ 2 * Abs(10000 * giri_result.value[1] - 667 * giri_result.value[2])
               <= giri_result.value[2]

\* C19, amended: in that case the compactness change is (900 - 1000) / 1000 =
\* -0.10 and calculate_giri returns mean(0.10, 0, -0.10) = 0.
C19_ExampleGivesZero ==
    GiriExample =>
        /\ NormalizedChange(GiriPreMetrics.block_height, GiriPostMetrics.block_height)
               = Rat(1, 10)
        /\ NormalizedChange(GiriPreMetrics.compactness, GiriPostMetrics.compactness)
               = Rat(0 - 1, 10)
        /\ giri_result.value = RatZero

\* the handler has evaluated a goal with the metrics of the example
C19_Witness ==
    /\ GiriExample
    /\ giri_event.event_type = "goal_scored"
    /\ Len(phases_df) = 1

(***************************************************************************)
(* Claims about the orchestrator: C20                                      *)
(***************************************************************************)
\* every evaluation started after both baseline passes of its call returned
EvaluationsAfterBaselines == \A e \in evaluations : e.passes = 2

\* C20, as stated: no CRT/TSI/GIRI evaluation starts before baseline
\* construction (both passes over the whole corpus) has completed, and the
\* metrics calculator does not exist until then.
C20_AsStated ==
    /\ EvaluationsAfterBaselines
    /\ metrics_calculator => orch.built

\* C20, amended: no evaluation starts before both baseline passes of its call
\* have returned, and during the first call the metrics calculator does not
\* exist until the baseline step is over, whether it built the baselines or
\* was skipped.
C20_EvaluationsWaitForBaselines ==
    /\ EvaluationsAfterBaselines
    /\ (orch.calls = 0 \/ (orch.calls = 1 /\ orch.pc \in {"tracking", "pass1", "pass2", "metrics"}))
          => ~metrics_calculator

\* a second call has evaluated the three metrics of a goal, after a first call
\* that loaded no tracking
C20_Witness ==
    /\ orch.calls = 2
    /\ ~(\E e \in evaluations : e.call = 1)
    /\ \A metric \in {"CRT", "TSI", "GIRI"} :
          \E e \in evaluations : e.call = 2 /\ e.event_id = 1 /\ e.metric = metric

(***************************************************************************)
(* Claims C23, C26 about calculate_tsi                                     *)
(***************************************************************************)
\* C23: calculate_tsi returns exactly 0.4 * proximity + 0.3 * possession +
\* 0.3 * structure of the three sub-scores, the weights not being
\* re-normalized when a sub-score is starved.
C23_TsiIsWeightedSum ==
    TsiReturned =>
        LET p == tsi_result.proximity_score
            q == tsi_result.possession_score
            r == tsi_result.structure_score
            t == tsi_result.tsi
        IN  10 * t[1] * p[2] * q[2] * r[2]
                = t[2] * (4 * p[1] * q[2] * r[2] + 3 * q[1] * p[2] * r[2]
                            + 3 * r[1] * p[2] * q[2])

\* proximity 0.5, possession 0 and a starved structure give TSI 0.2
C23_Witness ==
    /\ TsiReturned
    /\ phases_df = <<>>
    /\ tsi_result.proximity_score = Rat(1, 2)
    /\ tsi_result.possession_score = RatZero
    /\ tsi_result.structure_score = RatZero
    /\ tsi_result.tsi = Rat(2, 10)

\* the list indexes of the frames whose frame id is the event's
EventFrames ==
    { i \in 1..Len(tracking_frames) : tracking_frames[i].frame = tsi_args.error_frame }

\* C26, as stated: whenever a frame of the tracking sequence has the event's
\* frame id, calculate_tsi takes the event's period and team side from that
\* frame and returns a float without raising.
C26_AsStated ==
    (tsi_result.returned /\ EventFrames # {}) =>
        /\ ~tsi_result.raised
        /\ tsi_args.error_frame + 1 \in EventFrames

(***************************************************************************)
(* Claim C27 about calculate_giri                                          *)
(***************************************************************************)
\* the side whose frames give the block height of a window: that of the
\* possession group of the window's first frame
BlockHeightSide(window) ==
    IF tracking_frames[Head(window)].possession = "home" THEN "home" ELSE "away"

\* C27, as stated: in calculate_giri the pre-window and the post-window block
\* heights are computed for the same team side, and that side is the side of
\* the team identified by the team_id argument.
C27_AsStated ==
    GiriNonNull =>
        LET pre == BlockHeightSide(GiriPreFrames(tracking_frames,
                       giri_event.timestamp, giri_event.window_seconds))
            post == BlockHeightSide(GiriPostFrames(tracking_frames,
                        giri_event.timestamp, giri_event.window_seconds))
        IN  /\ pre = post
            /\ pre = SideOf(giri_event.team_id.v)

(***************************************************************************)
(* Claim C29 about detect_critical_events                                  *)
(***************************************************************************)
\* C29, as stated: no two critical events returned by detect_critical_events
\* share an event_id: each source row yields at most one critical event
\* across the five detectors.
C29_AsStated ==
    detected =>
        \A i \in 1..Len(df_critical), j \in 1..Len(df_critical) :
            i # j => df_critical[i].event_id # df_critical[j].event_id

(***************************************************************************)
(* Claim C28 about the two baseline passes                                 *)
(***************************************************************************)
\* C28, as stated: after both baseline passes over a corpus, every entry of
\* player_baselines holds all of x_mean, y_mean, dist_to_center_mean,
\* velocity_mean and velocity_std.
C28_AsStated ==
    baseline_pc = "done" =>
        \A pid \in DOMAIN player_baselines :
            {"x_mean", "y_mean", "dist_to_center_mean", "velocity_mean",
             "velocity_std"} \subseteq DOMAIN player_baselines[pid]

(***************************************************************************)
(* Claim C24 about the speeds of the samples of calculate_crt              *)
(***************************************************************************)
\* the index in tracking_frames of the frame a sample was taken from
FrameOfSample(m) ==
    CHOOSE i \in 1..Len(tracking_frames) : tracking_frames[i].timestamp = m.timestamp

\* the speed of the player in frame i against frame i - 1 of the full list:
\* 0 when there is no such frame, or the player is not in it
SpeedAgainstPrecedingFrame(i, player_id) ==
    IF i = 1 THEN RatZero
    ELSE LET frame == tracking_frames[i]
             prev_frame == tracking_frames[i - 1]
             at == FindPlayer(frame.player_data, player_id)
             pat == FindPlayer(prev_frame.player_data, player_id)
             dt == FloatSub(frame.timestamp, prev_frame.timestamp)
         IN  IF pat # 0 /\ dt > 0
             THEN Speed(frame.player_data[at].x - prev_frame.player_data[pat].x,
                        frame.player_data[at].y - prev_frame.player_data[pat].y, dt)
             ELSE RatZero

\* C24, as stated: the speed of every retained sample of calculate_crt is
\* computed against the frame that immediately precedes the sample's frame in
\* the full tracking sequence, not against the previous retained sample, also
\* when the actor is absent from some frames inside the window.
C24_AsStated ==
    crt_result.returned =>
        \A k \in 1..Len(crt_locals.player_metrics) :
            LET m == crt_locals.player_metrics[k]
            IN  m.velocity = SpeedAgainstPrecedingFrame(FrameOfSample(m),
                                                        crt_args.player_id)

(***************************************************************************)
(* Claim C30 about calculate_crt and the order of the frames               *)
(***************************************************************************)
\* C30, as stated: calculate_crt returns the same value for every permutation
\* of the tracking_frames list: here, for the list and for the list reversed.
C30_AsStated ==
    crt_result.returned => crt_locals.reversed_result = crt_result

(***************************************************************************)
(* Claims C22 and C25 about _process_match and the metric evaluations      *)
(***************************************************************************)
\* the record _process_match must hold for event i: each metric as its own
\* evaluation gives it, whatever became of the other two
MetricsOnTheirOwn(i) ==
    LET event == critical_events_df[i]
        record == results[i]
    IN  /\ record.event_id = event.event_id
        /\ {"CRT", "TSI", "GIRI"} \subseteq DOMAIN record
        /\ record.TSI = EventTsi(event, tracking_frames, phases_df,
                                 metrics_calculator, time_window_seconds)
        /\ record.GIRI = EventGiri(event, tracking_frames, phases_df,
                                   metrics_calculator, time_window_seconds)
        /\ ~CrtCalled(event, tracking_frames, metrics_calculator) =>
               record.CRT = None
        /\ CrtCalled(event, tracking_frames, metrics_calculator) =>
               \E dist \in [OffBaselineVectors(player_baselines,
                                CrtArgsOf(event, time_window_seconds),
                                tracking_frames) -> DistLevels] :
                   record.CRT = calculate_crt(player_baselines,
                                    CrtArgsOf(event, time_window_seconds),
                                    tracking_frames, dist)

\* C22: _process_match yields exactly one result record per critical event,
\* each with CRT, TSI and GIRI fields; a metric that lacks data or raises is
\* None in that record only: the other metrics of the event and the records
\* of later events are what their own evaluations give.
C22_OneRecordPerEvent ==
    /\ Len(results) <= Len(critical_events_df)
    /\ \A i \in 1..Len(results) : MetricsOnTheirOwn(i)
    /\ match_pc = "returned" => Len(results) = Len(critical_events_df)

\* C22 witness: a returned call with two events; in the first record CRT is
\* None (a missing player id makes the evaluation raise) and GIRI has a value;
\* the second record has CRT and TSI values.
C22_Witness ==
    /\ match_pc = "returned"
    /\ Len(results) = 2
    /\ critical_events_df[1].player_id = NaNCell
    /\ results[1].CRT.is_none
    /\ results[1].TSI.is_none
    /\ ~results[1].GIRI.is_none
    /\ ~results[2].CRT.is_none
    /\ ~results[2].TSI.is_none

\* the events handled so far for which calculate_crt looked a baseline up
BaselineLookups ==
    { i \in 1..Len(results) :
        /\ CrtCalled(critical_events_df[i], tracking_frames, metrics_calculator)
        /\ LET args == CrtArgsOf(critical_events_df[i], time_window_seconds)
               idx == ErrorFrameIdx(tracking_frames, args.error_timestamp,
                                    args.error_frame)
           IN  /\ idx # 0
               /\ Len(PostErrorIdx(tracking_frames, tracking_frames[idx].period,
                                   args.error_timestamp, args.window_seconds))
                      >= MinWindowFrames }

\* C25: evaluating CRT, TSI or GIRI leaves the baseline map unchanged: after
\* any number of events handled, player_baselines and team_baselines have the
\* keys and values they had before the call.
C25_BaselinesUnchanged ==
    /\ player_baselines = MatchBaselines
    /\ team_baselines = MatchTeamBaselines

\* C25 witness: a returned call in which CRT, TSI and GIRI were all evaluated
\* to a value for one event, and calculate_crt looked up the baseline of a
\* player who has none for another.
C25_Witness ==
    /\ match_pc = "returned"
    /\ \E i \in 1..Len(results) :
          /\ ~results[i].CRT.is_none
          /\ ~results[i].TSI.is_none
          /\ ~results[i].GIRI.is_none
    /\ \E i \in BaselineLookups :
          critical_events_df[i].player_id.v \notin DOMAIN MatchBaselines

(***************************************************************************)
(* Claim C21 about a match that raises in process_all_matches              *)
(***************************************************************************)
\* the matches with a record in a results list
MatchesIn(records) == { records[i].match_id : i \in 1..Len(records) }

\* C21, as stated: if processing one match raises, process_all_matches still
\* processes every remaining match, and the results of the other matches are
\* the same as if the failing match were not in the corpus.
C21_AsStated ==
    (orch.processed = {"m1", "m2"} /\ raising # {}) =>
        /\ MatchesIn(results) = {"m1", "m2"} \ raising
        /\ results = results_without

====
